---- MODULE Spec2Model ----
(***************************************************************************)
(* A model of grand-cypher (src/grandcypher/__init__.py): the GrandCypher  *)
(* object with its _GrandCypherTransformer, the motif builder, the hop     *)
(* expander, the matcher driver, WHERE evaluation and the result shaper.   *)
(*                                                                         *)
(* Conventions.                                                            *)
(*  - Host node ids are 1..host.n in insertion order.  Attribute values    *)
(*    are naturals; Python's None (a missing attribute) is None.           *)
(*  - A data path ("a.age", "ID(a)", "SUM(r.val)", an alias "x") is the    *)
(*    record [fn, ent, attr]; attr = "" when the path has no attribute.    *)
(*  - A Python dict whose insertion order the code reads is a sequence of  *)
(*    [k, v] records; a Python set that the code turns into a list is a    *)
(*    duplicate-free sequence in insertion order.                          *)
(*  - A raised exception is the field err of a result, "" when none.       *)
(***************************************************************************)
EXTENDS Integers, Sequences, FiniteSets, TLC

VARIABLES host, limit0, tr, out, hist, ix, memo

vars == <<host, limit0, tr, out, hist, ix, memo>>

None == -1

\* self._limit is None
NoLimit == -1

-----------------------------------------------------------------------------
(* Sequences and ordered dicts *)

Range(s) == {s[i] : i \in DOMAIN s}

RECURSIVE Flatten(_)
Flatten(ss) == IF ss = <<>> THEN <<>> ELSE Head(ss) \o Flatten(Tail(ss))

InSeq(x, s) == \E i \in DOMAIN s : s[i] = x

\* list.append unless present: a Python set kept in insertion order
AddOnce(s, x) == IF InSeq(x, s) THEN s ELSE Append(s, x)

RECURSIVE AddAllOnce(_, _)
AddAllOnce(s, xs) == IF xs = <<>> THEN s ELSE AddAllOnce(AddOnce(s, Head(xs)), Tail(xs))

DHas(d, k) == \E i \in DOMAIN d : d[i].k = k

DGet(d, k) == d[CHOOSE i \in DOMAIN d : d[i].k = k].v

\* d[k] = v: an existing key keeps its position
DPut(d, k, v) ==
    IF DHas(d, k)
    THEN [i \in DOMAIN d |-> IF d[i].k = k THEN [k |-> k, v |-> v] ELSE d[i]]
    ELSE Append(d, [k |-> k, v |-> v])

RECURSIVE DUpdate(_, _)
DUpdate(d, e) == IF e = <<>> THEN d ELSE DUpdate(DPut(d, Head(e).k, Head(e).v), Tail(e))

DKeys(d) == [i \in DOMAIN d |-> d[i].k]

Min2(a, b) == IF a < b THEN a ELSE b

-----------------------------------------------------------------------------
(* Data paths *)

Path(ent, attr) == [fn |-> "", ent |-> ent, attr |-> attr]

IdPath(ent) == [fn |-> "ID", ent |-> ent, attr |-> ""]

\* _format_aggregation_key: f"{func}({entity})"
FormatAggregationKey(func, entity) == [fn |-> func, ent |-> entity.ent, attr |-> entity.attr]

\* key.endswith(entity) for a key of the results dict and an aggregated
\* entity "e" or "e.attr".  Variable and attribute names of the model are
\* chosen so that none is a proper suffix of another, hence a suffix match is
\* a match of the last component (and of the variable, when the entity has
\* an attribute); "ID(a)" and "SUM(..)" end with ")" and match no entity.
EndsWith(key, entity) ==
    /\ key.fn = ""
    /\ IF entity.attr # ""
       THEN key.attr = entity.attr /\ key.ent = entity.ent
       ELSE IF key.attr # "" THEN key.attr = entity.ent ELSE key.ent = entity.ent

-----------------------------------------------------------------------------
(* Host graph: [n, multi, nattr, nlabels, edges].  edges maps <<u, v>> to   *)
(* the sequence of parallel edges (keys 0, 1, ..), each [haslab, labels,   *)
(* attrs]; a DiGraph host has at most one edge per pair.                   *)

HostNodes(h) == 1 .. h.n

HasEdge(h, u, v) == <<u, v>> \in DOMAIN h.edges

\* dict.get(attr, None)
AttrGet(attrs, a) == IF a \in DOMAIN attrs THEN attrs[a] ELSE None

-----------------------------------------------------------------------------
(* Motif: self._motif, an nx.MultiDiGraph.  nodes is the insertion order,  *)
(* nat the node data (decl: the node carries a __labels__ entry), edges    *)
(* the edges in insertion order.                                           *)

EmptyMotif == [nodes |-> <<>>, nat |-> <<>>, edges |-> <<>>]

NoData == [decl |-> FALSE, labels |-> {}, attrs |-> <<>>]

NodeData(M, n) == IF InSeq(n, M.nodes) THEN M.nat[CHOOSE i \in DOMAIN M.nodes : M.nodes[i] = n] ELSE NoData

\* add_node without data: the node is created when absent
TouchNode(M, n) ==
    IF InSeq(n, M.nodes) THEN M
    ELSE [M EXCEPT !.nodes = Append(@, n), !.nat = Append(@, NoData)]

\* add_node(n, __labels__=labels, **js): dict.update of the node's data
AddNode(M, n, labels, js) ==
    LET M1 == TouchNode(M, n)
        i == CHOOSE j \in DOMAIN M1.nodes : M1.nodes[j] = n
        old == M1.nat[i]
    IN [M1 EXCEPT !.nat[i] = [decl |-> TRUE, labels |-> labels, attrs |-> js @@ old.attrs]]

NextKey(M, u, v) == Cardinality({i \in DOMAIN M.edges : M.edges[i].u = u /\ M.edges[i].v = v})

\* MultiDiGraph.add_edge(u, v, **attr): always a new parallel edge
AddEdge(M, u, v, minh, maxh, ish, labels) ==
    LET M1 == TouchNode(TouchNode(M, u), v)
    IN [M1 EXCEPT !.edges = Append(@, [u |-> u, v |-> v, key |-> NextKey(M, u, v),
                                       minh |-> minh, maxh |-> maxh, ish |-> ish,
                                       labels |-> labels])]

-----------------------------------------------------------------------------
(* The transformer: the state of a _GrandCypherTransformer after __init__  *)
(* and the callbacks that Transformer.transform runs bottom-up over the    *)
(* parse tree of a query.                                                  *)
(*                                                                         *)
(* A query is [clauses, where, ret, distinct, order, skip, limit]:         *)
(*   clauses  the MATCH clauses, each [nodes, edges] with node             *)
(*            [name, labels, attrs] (the result of node_match) and edge    *)
(*            [name, types, dir, minh, maxh] as written (None: absent)     *)
(*   where    a condition tree, or NoWhere                                 *)
(*   ret      the RETURN items [agg, func, path, alias]                    *)
(*   order    the ORDER BY items [agg, func, path, dir], <<>> when absent  *)
(*   skip, limit   the numbers written, None when the clause is absent     *)

NoWhere == [t |-> "none"]

\* self._max_hop
MaxHop == 100

\* _GrandCypherTransformer.__init__
NewTransformer(limit) ==
    [motif |-> EmptyMotif, returnEdges |-> <<>>, where |-> NoWhere,
     matches |-> <<>>,
     returnRequests |-> <<>>, aggFuncs |-> <<>>, aggAttrs |-> <<>>,
     origReturn |-> {}, distinct |-> FALSE,
     orderBy |-> <<>>, orderByAttrs |-> <<>>,
     limit |-> limit, skip |-> 0,
     entity2alias |-> <<>>, alias2entity |-> <<>>, hints |-> <<>>, err |-> ""]

\* edge_match: (cname, edge_types, direction, min_hop, max_hop)
EdgeMatch(e) ==
    LET maxh == IF e.maxh = None THEN None ELSE e.maxh + 1
    IN [name |-> e.name, types |-> e.types, dir |-> e.dir, minh |-> e.minh, maxh |-> maxh,
        err |-> IF (e.minh # None \/ maxh # None) /\ e.dir = "b" THEN "TypeError" ELSE ""]

\* one (u, edge, v) step of match_clause
MatchStep(t, u, e0, v) ==
    LET e == EdgeMatch(e0)
        edges == CASE e.dir = "r" -> << <<u.name, v.name>> >>
                   [] e.dir = "l" -> << <<v.name, u.name>> >>
                   [] OTHER -> << <<u.name, v.name>>, <<v.name, u.name>> >>
        re == IF e.name # "" THEN DPut(t.returnEdges, e.name, edges[1]) ELSE t.returnEdges
        ish == e.minh = None /\ e.maxh = None
        minh == IF e.minh # None THEN e.minh ELSE 1
        maxh == IF e.maxh # None THEN e.maxh ELSE minh + 1
        M1 == AddEdge(t.motif, edges[1][1], edges[1][2], minh, maxh, ish, e.types)
        M2 == IF Len(edges) = 2 THEN AddEdge(M1, edges[2][1], edges[2][2], minh, maxh, ish, e.types) ELSE M1
        M3 == AddNode(AddNode(M2, u.name, u.labels, u.attrs), v.name, v.labels, v.attrs)
    IN IF e.err # "" THEN [t EXCEPT !.err = e.err]
       ELSE IF maxh > MaxHop THEN [t EXCEPT !.returnEdges = re, !.err = "ValueError"]
       ELSE [t EXCEPT !.returnEdges = re, !.motif = M3]

RECURSIVE MatchSteps(_, _, _)
MatchSteps(t, c, i) ==
    IF i > Len(c.edges) \/ t.err # "" THEN t
    ELSE MatchSteps(MatchStep(t, c.nodes[i], c.edges[i], c.nodes[i + 1]), c, i + 1)

\* match_clause
MatchClause(t, c) ==
    IF Len(c.nodes) = 1
    THEN [t EXCEPT !.motif = AddNode(@, c.nodes[1].name, c.nodes[1].labels, c.nodes[1].attrs)]
    ELSE IF \E i \in DOMAIN c.edges : EdgeMatch(c.edges[i]).err # ""
         THEN [t EXCEPT !.err = "TypeError"]
         ELSE MatchSteps(t, c, 1)

RECURSIVE MatchClauses(_, _)
MatchClauses(t, cs) ==
    IF cs = <<>> \/ t.err # "" THEN t ELSE MatchClauses(MatchClause(t, Head(cs)), Tail(cs))

\* one item of return_clause
ReturnItem(t, it) ==
    IF it.agg
    THEN LET key == FormatAggregationKey(it.func, it.path)
         IN [t EXCEPT !.entity2alias = IF it.alias # "" THEN DPut(@, key, Path(it.alias, "")) ELSE @,
                      !.aggAttrs = AddOnce(@, it.path),
                      !.aggFuncs = Append(@, [func |-> it.func, entity |-> it.path])]
    ELSE [t EXCEPT !.origReturn = @ \cup {it.path},
                   !.entity2alias = IF it.alias # "" THEN DPut(@, it.path, Path(it.alias, "")) ELSE @,
                   !.returnRequests = Append(@, it.path)]

RECURSIVE ReturnItems(_, _)
ReturnItems(t, its) == IF its = <<>> THEN t ELSE ReturnItems(ReturnItem(t, Head(its)), Tail(its))

\* {v: k for k, v in self._entity2alias.items()}
InverseOf(d) == LET r == [i \in DOMAIN d |-> [k |-> d[i].v, v |-> d[i].k]] IN DUpdate(<<>>, r)

\* return_clause
ReturnClause(t, its) ==
    LET t1 == ReturnItems(t, its)
    IN [t1 EXCEPT !.alias2entity = DUpdate(@, InverseOf(t1.entity2alias))]

OrderDirectionAsc(dirTok) == "ASC"

\* order_clause: the direction of an item
OrderDirection(dirTok) == IF dirTok # "desc" THEN "ASC" ELSE "DESC"

OrderItem(t, it) ==
    LET field == IF it.agg THEN FormatAggregationKey(it.func, it.path) ELSE it.path
    IN [t EXCEPT !.orderByAttrs = AddOnce(@, it.path),
                 !.orderBy = Append(@, [field |-> field, dir |-> OrderDirection(it.dir)])]

RECURSIVE OrderItems(_, _)
OrderItems(t, its) == IF its = <<>> THEN t ELSE OrderItems(OrderItem(t, Head(its)), Tail(its))

\* order_clause; the callback does not run for a query without ORDER BY
OrderClause(t, its) == IF its = <<>> THEN t ELSE OrderItems([t EXCEPT !.orderBy = <<>>], its)

\* the callbacks after those of the MATCH clauses, unless these raised:
\* where_clause, distinct_return, return_clause, order_clause, skip_clause
\* and limit_clause, each run when the query has the clause
Callbacks(t, q) ==
    IF t.err # "" THEN t
    ELSE [OrderClause(ReturnClause([t EXCEPT !.where = IF q.where.t # "none" THEN q.where ELSE @,
                                             !.distinct = IF q.distinct THEN TRUE ELSE @],
                                   q.ret),
                      q.order)
             EXCEPT !.skip = IF q.skip # None THEN q.skip ELSE @,
                    !.limit = IF q.limit # None THEN q.limit ELSE @]

\* transform(tree, hints): set_hints, then the callbacks in tree order
Transform(t0, q, hints) == Callbacks(MatchClauses([t0 EXCEPT !.hints = hints, !.err = ""], q.clauses), q)

-----------------------------------------------------------------------------
(* Attribute matching *)

\* the cache of @lru_cache() before the first call.  memo is the cache of
\* _is_node_attr_match and _is_edge_attr_match for one motif object and one
\* host object: the arguments motif and host are hashed by identity, so the
\* key is left with the node and edge ids.  A run on a new object builds
\* new motif objects and finds no entry.
NoMemo == <<>>

\* _is_node_attr_match on the data d of the motif node and host node hn,
\* without its cache
IsNodeAttrMatch(d, h, hn) ==
    /\ d.labels \subseteq h.nlabels[hn]
    /\ \A a \in DOMAIN d.attrs : AttrGet(h.nattr[hn], a) = d.attrs[a]

\* a call of the cached function under key: the stored result when the
\* cache holds the key, else the computed one, which is stored: [res, memo]
Cached(c, key, computed) ==
    IF key \in DOMAIN c THEN [res |-> c[key], memo |-> c]
    ELSE [res |-> computed, memo |-> (key :> computed) @@ c]

\* _is_node_attr_match(n, hn, motif, host) with motif the object M
CachedNodeMatch(c, M, h, n, hn) == Cached(c, <<"node", n, hn>>, IsNodeAttrMatch(NodeData(M, n), h, hn))

\* _aggregate_edge_labels: the union of the non-empty __labels__, and the
\* data of the edges that carry no __labels__ entry, by edge key
AggregateEdgeLabels(es) ==
    [labels |-> UNION {es[i].labels : i \in {j \in DOMAIN es : es[j].haslab}},
     rest |-> {i \in DOMAIN es : ~es[i].haslab}]

\* _is_edge_attr_match, on the parallel edges of the motif pair and of the
\* host pair (<<>>: the pair has no edge)
IsEdgeAttrMatch(medges, hedges) ==
    LET m == AggregateEdgeLabels(medges)
        g == AggregateEdgeLabels(hedges)
    IN /\ medges # <<>>
       /\ hedges # <<>>
       /\ (m.labels # {} => m.labels \cap g.labels # {})
       /\ \A i \in m.rest : i \in g.rest /\ hedges[i].attrs = medges[i].attrs

HostEdges(h, u, v) == IF HasEdge(h, u, v) THEN h.edges[<<u, v>>] ELSE <<>>

\* a call of _is_edge_attr_match on a pair of the motif and a pair of the
\* host, either of which may have no edge: [err, res].  For a pair without
\* edge _get_edge_attributes returns None on a multigraph and {0: None} on
\* a DiGraph, and _aggregate_edge_labels fails on the None inside.
EdgeAttrMatchCall(mmulti, medges, hmulti, hedges) ==
    IF mmulti /\ medges = <<>> THEN [err |-> "", res |-> FALSE]
    ELSE IF hmulti /\ hedges = <<>> THEN [err |-> "", res |-> FALSE]
    ELSE IF medges = <<>> \/ hedges = <<>> THEN [err |-> "TypeError", res |-> FALSE]
    ELSE [err |-> "", res |-> IsEdgeAttrMatch(medges, hedges)]

-----------------------------------------------------------------------------
(* Hop expansion: _edge_hop_motifs and _product_motifs.  An expanded motif *)
(* is an nx.DiGraph [nodes, edges] with edges [u, v, labels]; its node     *)
(* data is that of self._motif (an inserted hop node has none).            *)

\* shortuuid(): a fresh name per edge and hop position
HopNames ==
    << <<"h11", "h12", "h13", "h14">>, <<"h21", "h22", "h23", "h24">>,
       <<"h31", "h32", "h33", "h34">>, <<"h41", "h42", "h43", "h44">> >>

RECURSIVE Dedup(_)
Dedup(s) == IF s = <<>> THEN <<>> ELSE AddOnce(Dedup(SubSeq(s, 1, Len(s) - 1)), s[Len(s)])

\* motif.edges(keys=True): by source node, then neighbour, then key
EdgeIter(M) ==
    LET from(n) == SelectSeq(M.edges, LAMBDA e : e.u = n)
        nbrs(n) == Dedup([i \in DOMAIN from(n) |-> from(n)[i].v])
        to(n, w) == SelectSeq(from(n), LAMBDA e : e.v = w)
        ofNode(n) == Flatten([i \in DOMAIN nbrs(n) |-> to(n, nbrs(n)[i])])
    IN Flatten([i \in DOMAIN M.nodes |-> ofNode(M.nodes[i])])

Isolated(M) == SelectSeq(M.nodes, LAMBDA n : \A i \in DOMAIN M.edges : M.edges[i].u # n /\ M.edges[i].v # n)

\* DiGraph.add_edge: an existing pair keeps its place and takes the new data
PutEdge(es, e) ==
    IF \E i \in DOMAIN es : es[i].u = e.u /\ es[i].v = e.v
    THEN [i \in DOMAIN es |-> IF es[i].u = e.u /\ es[i].v = e.v THEN e ELSE es[i]]
    ELSE Append(es, e)

RECURSIVE PutEdges(_, _)
PutEdges(es, new) == IF new = <<>> THEN es ELSE PutEdges(PutEdge(es, Head(new)), Tail(new))

\* the graph built by one pair of _product_motifs
MergeMotif(m1, m2) ==
    [nodes |-> AddAllOnce(m1.nodes, m2.nodes), edges |-> PutEdges(m1.edges, m2.edges)]

\* _product_motifs
ProductMotifs(ms1, ms2) ==
    Flatten([i \in DOMAIN ms1 |->
        [j \in DOMAIN ms2 |->
            [m |-> MergeMotif(ms1[i].m, ms2[j].m), map |-> DUpdate(ms1[i].map, ms2[j].map)]]])

\* the chain u, hops, v of one length
ChainMotif(e, ei, nhops) ==
    LET path == <<e.u>> \o SubSeq(HopNames[ei], 1, nhops) \o <<e.v>>
    IN [m |-> [nodes |-> Dedup(path),
               edges |-> PutEdges(<<>>, [i \in 1 .. (Len(path) - 1) |->
                            [u |-> path[i], v |-> path[i + 1], labels |-> e.labels]])],
        map |-> << [k |-> <<e.u, e.v>>, v |-> path] >>]

EdgeExpansionsFromOne(e, ei) ==
    [j \in 1 .. (e.maxh - (IF e.minh > 1 THEN e.minh ELSE 1)) |->
        ChainMotif(e, ei, (IF e.minh > 1 THEN e.minh ELSE 1) - 1 + j - 1)]

\* the expansions of one motif edge
EdgeExpansions(e, ei) ==
    LET lo == IF e.minh > 1 THEN e.minh ELSE 1
        zero == IF e.minh = 0
                THEN << [m |-> [nodes |-> <<e.u>>, edges |-> <<>>],
                         map |-> << [k |-> <<e.u, e.v>>, v |-> <<e.u, e.u>>] >>] >>
                ELSE <<>>
    IN zero \o [j \in 1 .. (e.maxh - lo) |-> ChainMotif(e, ei, lo - 1 + j - 1)]

RECURSIVE HopProduct(_, _, _)
HopProduct(ms, es, ei) ==
    IF ei > Len(es) THEN ms
    ELSE HopProduct(ProductMotifs(ms, EdgeExpansions(es[ei], ei)), es, ei + 1)

\* _edge_hop_motifs
EdgeHopMotifs(M) ==
    HopProduct(<< [m |-> [nodes |-> Isolated(M), edges |-> <<>>], map |-> <<>>] >>, EdgeIter(M), 1)

-----------------------------------------------------------------------------
(* The matcher.  grandiso.find_motifs_iter is a library outside this       *)
(* repository; it is modelled by its contract: it yields, in a fixed       *)
(* order, every node-injective mapping of the motif's nodes to host nodes  *)
(* under which each motif node passes is_node_attr_match and each motif    *)
(* edge has a host edge that passes is_edge_attr_match, and with hints     *)
(* only the mappings that extend a hint, hint by hint.  The fixed order is *)
(* taken lexicographic in the motif's node order and the host's node       *)
(* order.  A hint that binds a name which is no node of the searched       *)
(* motif is outside the contract: the search counts the name as an         *)
(* assigned node and breaks down, which is modelled as a raised exception. *)

Neighbours(m, S) ==
    S \cup {m.edges[i].v : i \in {j \in DOMAIN m.edges : m.edges[j].u \in S}}
      \cup {m.edges[i].u : i \in {j \in DOMAIN m.edges : m.edges[j].v \in S}}

RECURSIVE Closure(_, _)
Closure(m, S) == IF Neighbours(m, S) = S THEN S ELSE Closure(m, Neighbours(m, S))

RECURSIVE ComponentsFrom(_, _, _)
ComponentsFrom(m, i, seen) ==
    IF i > Len(m.nodes) THEN <<>>
    ELSE IF m.nodes[i] \in seen THEN ComponentsFrom(m, i + 1, seen)
    ELSE LET c == Closure(m, {m.nodes[i]})
         IN <<SelectSeq(m.nodes, LAMBDA n : n \in c)>> \o ComponentsFrom(m, i + 1, seen \cup c)

\* nx.weakly_connected_components(motif), each as motif.subgraph(c).nodes
Components(m) == ComponentsFrom(m, 1, {})

\* every motif edge inside the mapping has a matching host edge
EdgesMatch(m, h, f) ==
    \A i \in DOMAIN m.edges :
        (m.edges[i].u \in DOMAIN f /\ m.edges[i].v \in DOMAIN f) =>
            /\ HasEdge(h, f[m.edges[i].u], f[m.edges[i].v])
            /\ IsEdgeAttrMatch(<< [haslab |-> TRUE, labels |-> m.edges[i].labels, attrs |-> <<>>] >>,
                               HostEdges(h, f[m.edges[i].u], f[m.edges[i].v]))

AnyHostNode(f, hn) == TRUE

\* a host node that the mapping has not used: grandiso binds distinct motif
\* nodes to distinct host nodes
FreeHostNode(f, hn) == \A n \in DOMAIN f : f[n] # hn

RECURSIVE Extensions(_, _, _, _, _, _)
RECURSIVE ExtendWith(_, _, _, _, _, _, _)
\* the complete mappings that extend f over cn[i..], in lexicographic order
Extensions(cn, i, f, m, M, h) ==
    IF i > Len(cn) THEN <<f>>
    ELSE IF cn[i] \in DOMAIN f THEN Extensions(cn, i + 1, f, m, M, h)
    ELSE ExtendWith(cn, i, f, m, M, h, 1)

ExtendWith(cn, i, f, m, M, h, hn) ==
    IF hn > h.n THEN <<>>
    ELSE LET g == f @@ (cn[i] :> hn)
             here == IF /\ FreeHostNode(f, hn)
                        /\ IsNodeAttrMatch(NodeData(M, cn[i]), h, hn)
                        /\ EdgesMatch(m, h, g)
                     THEN Extensions(cn, i + 1, g, m, M, h)
                     ELSE <<>>
         IN here \o ExtendWith(cn, i, f, m, M, h, hn + 1)

\* a hint grandiso can start from: it binds nodes of the motif to distinct
\* host nodes that pass the node and edge checks among themselves
HintFits(cn, hint, m, M, h) ==
    /\ DOMAIN hint \subseteq Range(cn)
    /\ \A n \in DOMAIN hint : hint[n] \in HostNodes(h) /\ IsNodeAttrMatch(NodeData(M, n), h, hint[n])
    /\ \A n1, n2 \in DOMAIN hint : n1 # n2 => hint[n1] # hint[n2]
    /\ EdgesMatch(m, h, hint)

\* grandiso.find_motifs_iter(motif.subgraph(c), host, hints=...) as a list
FindMotifs(cn, m, M, h, hints) ==
    IF hints = <<>>
    THEN [err |-> "", ms |-> Extensions(cn, 1, <<>>, m, M, h)]
    ELSE IF \E i \in DOMAIN hints : ~(DOMAIN hints[i] \subseteq Range(cn))
    THEN [err |-> "HintError", ms |-> <<>>]
    ELSE [err |-> "",
          ms |-> Flatten([i \in DOMAIN hints |->
                    IF HintFits(cn, hints[i], m, M, h)
                    THEN Extensions(cn, 1, hints[i], m, M, h) ELSE <<>>])]

\* _is_limit
IsLimit(t, length) == t.limit # NoLimit /\ length >= t.limit

\* the part of a component's matches that the loop of _matches_iter keeps
Collected(t, ms) ==
    IF \E k \in 1 .. Len(ms) : IsLimit(t, k)
    THEN SubSeq(ms, 1, CHOOSE k \in 1 .. Len(ms) : IsLimit(t, k) /\ \A j \in 1 .. (k - 1) : ~IsLimit(t, j))
    ELSE ms

RECURSIVE Join(_, _)
\* join = [{**a, **b} for a in join for b in match], over the components
\* that produced a match
Join(join, lists) ==
    IF lists = <<>> THEN join
    ELSE IF Head(lists) = <<>> THEN Join(join, Tail(lists))
    ELSE IF join = <<>> THEN Join(Head(lists), Tail(lists))
    ELSE Join(Flatten([i \in DOMAIN join |-> [j \in DOMAIN Head(lists) |-> Head(lists)[j] @@ join[i]]]),
              Tail(lists))

HintsDropped(t) == <<>>

\* hints=self._hints if self._hints is not None else []
HintsArg(t) == t.hints

\* _matches_iter(motif) as a list
MatchesIter(t, m, h) ==
    LET cs == Components(m)
        found == [i \in DOMAIN cs |-> FindMotifs(cs[i], m, t.motif, h, HintsArg(t))]
    IN IF \E i \in DOMAIN found : found[i].err # ""
       THEN [err |-> "HintError", ms |-> <<>>]
       ELSE IF Len(cs) = 1 THEN [err |-> "", ms |-> found[1].ms]
       ELSE [err |-> "", ms |-> Join(<<>>, [i \in DOMAIN cs |-> Collected(t, found[i].ms)])]

-----------------------------------------------------------------------------
(* WHERE: a condition is [t |-> "cmp", shouldbe, ent, op, val, vals] (the  *)
(* closure made by cond_; vals is the list of an IN) or [t |-> "and"/"or", *)
(* a, b].  Evaluation gives [err, b, w]: the verdict and the per-edge mask *)
(* (operator_results).                                                     *)

\* _OPERATORS[op](x, y) inside try/except: raised |-> TRUE when it raises
ApplyOp(op, x, y, ys) ==
    CASE op = "==" -> [raised |-> FALSE, val |-> x = y]
      [] op = "<>" -> [raised |-> FALSE, val |-> x # y]
      [] op = "is" -> [raised |-> FALSE, val |-> x = y]
      [] op = "in" -> [raised |-> FALSE, val |-> x \in ys]
      [] op \in {"<", "<=", ">", ">="} ->
            IF x = None \/ y = None THEN [raised |-> TRUE, val |-> FALSE]
            ELSE [raised |-> FALSE,
                  val |-> CASE op = "<" -> x < y [] op = "<=" -> x <= y
                            [] op = ">" -> x > y [] OTHER -> x >= y]

\* try: operator(x, value) except: False
TryOp(op, x, y, ys) == LET r == ApplyOp(op, x, y, ys) IN IF r.raised THEN FALSE ELSE r.val

\* (val == should_be, operator_results) of a comparison, res the results
\* of the operator: one per parallel edge of a multigraph, else one
CondOut(c, res) == [err |-> "", b |-> ((\E i \in DOMAIN res : res[i]) = c.shouldbe), w |-> res]

\* cond_(should_be, entity_id, operator, value)(match, host, return_edges)
CondCmp(c, match, h, re) ==
    IF c.ent.fn = "ID"
    THEN IF c.ent.ent \in DOMAIN match
         THEN CondOut(c, <<TryOp(c.op, match[c.ent.ent], c.val, c.vals)>>)
         ELSE [err |-> "IndexError", b |-> FALSE, w |-> <<>>]
    ELSE IF c.ent.ent \in DOMAIN match
    THEN \* a node: host.nodes[id].get(attribute)
         CondOut(c, <<TryOp(c.op, AttrGet(h.nattr[match[c.ent.ent]], c.ent.attr), c.val, c.vals)>>)
    ELSE IF DHas(re, c.ent.ent)
    THEN LET uv == DGet(re, c.ent.ent)
         IN IF ~(uv[1] \in DOMAIN match /\ uv[2] \in DOMAIN match)
            THEN [err |-> "KeyError", b |-> FALSE, w |-> <<>>]
            ELSE LET es == HostEdges(h, match[uv[1]], match[uv[2]])
                 IN IF h.multi
                    THEN \* one result per parallel edge; [None] without an edge
                         CondOut(c, IF es = <<>> THEN <<TryOp(c.op, None, c.val, c.vals)>>
                                    ELSE [i \in DOMAIN es |->
                                             TryOp(c.op, AttrGet(es[i].attrs, c.ent.attr), c.val, c.vals)])
                    ELSE \* edge_data[0].get(attribute); no edge raises inside the try
                         CondOut(c, << IF es = <<>> THEN FALSE
                                       ELSE TryOp(c.op, AttrGet(es[1].attrs, c.ent.attr), c.val, c.vals) >>)
    ELSE [err |-> "IndexError", b |-> FALSE, w |-> <<>>]

\* zip(where_a, where_b) combined with op
ZipMask(wa, wb, isAnd) ==
    [i \in 1 .. Min2(Len(wa), Len(wb)) |-> IF isAnd THEN wa[i] /\ wb[i] ELSE wa[i] \/ wb[i]]

RECURSIVE CondEval(_, _, _, _)
\* and_ / or_ / cond_
CondEval(c, match, h, re) ==
    IF c.t = "cmp" THEN CondCmp(c, match, h, re)
    ELSE LET a == CondEval(c.a, match, h, re)
             b == CondEval(c.b, match, h, re)
         IN IF a.err # "" THEN a
            ELSE IF b.err # "" THEN b
            ELSE [err |-> "",
                  b |-> IF c.t = "and" THEN a.b /\ b.b ELSE a.b \/ b.b,
                  w |-> ZipMask(a.w, b.w, c.t = "and")]

-----------------------------------------------------------------------------
(* _get_true_matches *)

\* edge_hop_map keys whose path is (u, u)
ZeroHopEdges(map) ==
    SelectSeq(DKeys(map), LAMBDA k : Len(DGet(map, k)) = 2 /\ DGet(map, k)[1] = DGet(map, k)[2])

EndUnchecked(t, h, b, hn) == TRUE

\* the far end b of a zero-hop edge passes _is_node_attr_match on the host
\* node hn that the near end is bound to, with b's data in self._motif
EndMatches(t, h, b, hn) == IsNodeAttrMatch(NodeData(t.motif, b), h, hn)

RECURSIVE ZeroHop(_, _, _, _)
\* the loop over zero_hop_edges: [err, ok, m]
ZeroHop(t, h, match, zs) ==
    IF zs = <<>> THEN [err |-> "", ok |-> TRUE, m |-> match]
    ELSE LET a == Head(zs)[1]
             b == Head(zs)[2]
         IN IF a \notin DOMAIN match THEN [err |-> "KeyError", ok |-> FALSE, m |-> match]
            ELSE IF b \in DOMAIN match /\ match[b] # match[a] THEN [err |-> "", ok |-> FALSE, m |-> match]
            ELSE IF ~EndMatches(t, h, b, match[a])
                 THEN [err |-> "", ok |-> FALSE, m |-> match]
            ELSE ZeroHop(t, h, (b :> match[a]) @@ match, Tail(zs))

\* one match of the inner loop: [err, keep, row]
TrueMatch(t, h, match, map) ==
    LET z == ZeroHop(t, h, match, ZeroHopEdges(map))
        w == IF t.where.t = "none" THEN [err |-> "", b |-> TRUE, w |-> <<>>]
             ELSE CondEval(t.where, z.m, h, t.returnEdges)
    IN IF z.err # "" THEN [err |-> z.err, keep |-> FALSE, row |-> <<>>]
       ELSE IF ~z.ok THEN [err |-> "", keep |-> FALSE, row |-> <<>>]
       ELSE IF w.err # "" THEN [err |-> w.err, keep |-> FALSE, row |-> <<>>]
       ELSE [err |-> "", keep |-> w.b, row |-> [m |-> z.m, w |-> w.w, p |-> map]]

\* the first exception of a loop, outs the outcomes [err, ..] of its
\* iterations in order ("": none raised)
FirstErr(outs) ==
    IF \E i \in DOMAIN outs : outs[i].err # ""
    THEN outs[CHOOSE i \in DOMAIN outs : outs[i].err # "" /\ \A j \in 1 .. (i - 1) : outs[j].err = ""].err
    ELSE ""

\* self_matches.append(..) for the matches that are kept, each the
\* outcomes [err, keep, row] of the matches in order: [err, rows]
KeptRows(each) ==
    IF FirstErr(each) # "" THEN [err |-> FirstErr(each), rows |-> <<>>]
    ELSE LET kept == SelectSeq(each, LAMBDA r : r.keep) IN [err |-> "", rows |-> [i \in DOMAIN kept |-> kept[i].row]]

\* the inner loop of _get_true_matches over the matches it = [err, ms] of
\* one expanded motif: [err, rows]
MatchRows(t, h, map, it) ==
    IF it.err # "" THEN [err |-> it.err, rows |-> <<>>]
    ELSE KeptRows([i \in DOMAIN it.ms |-> TrueMatch(t, h, it.ms[i], map)])

\* self._matches = self_matches, per the outcomes [err, rows] of the
\* expanded motifs: [err, t]
SetMatches(t, per) ==
    IF FirstErr(per) # "" THEN [err |-> FirstErr(per), t |-> t]
    ELSE [err |-> "", t |-> [t EXCEPT !.matches = Flatten([i \in DOMAIN per |-> per[i].rows])]]

\* _get_true_matches: [err, t] with t._matches set when it was empty
GetTrueMatches(t, h) ==
    IF t.matches # <<>> THEN [err |-> "", t |-> t]
    ELSE LET ems == EdgeHopMotifs(t.motif)
         IN SetMatches(t, [i \in DOMAIN ems |-> MatchRows(t, h, ems[i].map, MatchesIter(t, ems[i].m, h))])

-----------------------------------------------------------------------------
(* _lookup.  A cell of a result column is [kind, v, ents]:                 *)
(*   "val"   a scalar v: a node attribute (None when missing) or a node id *)
(*   "node"  the attribute dict of host node v (RETURN of a bare variable) *)
(*   "edge"  the dict {(i, label): value} of an edge attribute, ents the   *)
(*           entries [i, lab, v, d] in dict order (d = 1)                  *)
(*   "agg"   the dict {label: value} of an aggregation, value = v / d      *)
(* Path bindings (P = ...) and the RETURN of a bare edge variable are not  *)
(* modelled: no query of the model uses them.                              *)

ValCell(x) == [kind |-> "val", v |-> x, ents |-> <<>>]

NodeCell(x) == [kind |-> "node", v |-> x, ents |-> <<>>]

DictCell(kind, ents) == [kind |-> kind, v |-> 0, ents |-> ents]

\* the first loop of _lookup over one data path: [err, res, done]
LookupId(t, rows, acc, dp) ==
    IF dp.fn = "ID" /\ InSeq(dp.ent, t.motif.nodes)
    THEN IF \E i \in DOMAIN rows : dp.ent \notin DOMAIN rows[i].m
         THEN [acc EXCEPT !.err = "KeyError"]
         ELSE LET ret == [i \in DOMAIN rows |-> ValCell(rows[i].m[dp.ent])]
              IN [acc EXCEPT !.res = DPut(DPut(@, dp, ret), Path(dp.ent, ""), ret),
                             !.done = @ \cup {dp, Path(dp.ent, "")}]
    ELSE IF dp.fn = "" /\ (InSeq(dp.ent, t.motif.nodes) \/ DHas(t.returnEdges, dp.ent))
    THEN acc
    ELSE [acc EXCEPT !.err = "NotImplementedError"]

RECURSIVE LookupIds(_, _, _, _)
LookupIds(t, rows, acc, dps) ==
    IF dps = <<>> \/ acc.err # "" THEN acc
    ELSE LookupIds(t, rows, LookupId(t, rows, acc, Head(dps)), Tail(dps))

\* _get_edge_attributes(host, a, b): the dict of the parallel edges by key;
\* none: the call returned None; null: the entry {0: None} of a DiGraph
EdgeDict(h, a, b) ==
    LET es == HostEdges(h, a, b)
    IN IF es = <<>>
       THEN IF h.multi THEN [none |-> TRUE, items |-> <<>>]
            ELSE [none |-> FALSE,
                  items |-> << [k |-> 0, null |-> TRUE, haslab |-> FALSE, labels |-> {}, attrs |-> <<>>] >>]
       ELSE [none |-> FALSE,
             items |-> [i \in DOMAIN es |-> [k |-> i - 1, null |-> FALSE, haslab |-> es[i].haslab,
                                             labels |-> es[i].labels, attrs |-> es[i].attrs]]]

\* _get_edge
GetEdge(h, m, path) == [i \in 1 .. (Len(path) - 1) |-> EdgeDict(h, m[path[i]], m[path[i + 1]])]

\* _filter_edge: [err, list]
FilterEdge(edge, w) ==
    IF w = <<>> THEN [err |-> "", list |-> edge]
    ELSE IF edge = <<>> THEN [err |-> "IndexError", list |-> <<>>]
    ELSE IF edge[1].none THEN [err |-> "AttributeError", list |-> <<>>]
    ELSE IF \E i \in DOMAIN edge[1].items : edge[1].items[i].k + 1 > Len(w)
         THEN [err |-> "IndexError", list |-> <<>>]
    ELSE [err |-> "",
          list |-> << [none |-> FALSE, items |-> SelectSeq(edge[1].items, LAMBDA it : w[it.k + 1])] >>]

\* the motif's labels of the pair (u, v), over its parallel edges
MotifEdgeLabels(M, u, v) ==
    UNION {M.edges[i].labels : i \in {j \in DOMAIN M.edges : M.edges[j].u = u /\ M.edges[j].v = v}}

\* list(v.get("__labels__", [i]))[0]
FirstLabel(it, i) == IF it.haslab THEN CHOOSE l \in it.labels : TRUE ELSE i

RECURSIVE AttrEntries(_, _, _, _)
\* r_attr[(i, label)] = v.get(attribute) over the entries of one dict
AttrEntries(acc, items, i, attr) ==
    IF i > Len(items) THEN acc
    ELSE LET key == <<i - 1, FirstLabel(items[i], i - 1)>>
         IN AttrEntries(DPut(acc, key, AttrGet(items[i].attrs, attr)), items, i + 1, attr)

RECURSIVE AttrOfDicts(_, _, _)
AttrOfDicts(acc, dicts, attr) ==
    IF dicts = <<>> THEN acc
    ELSE AttrOfDicts(AttrEntries(acc, Head(dicts).items, 1, attr), Tail(dicts), attr)

\* one row of an edge-attribute column: [err, drop, cell]
EdgeCell(t, h, row, uv, attr) ==
    LET none == [err |-> "", drop |-> FALSE, cell |-> DictCell("edge", <<>>)]
        labels == MotifEdgeLabels(t.motif, uv[1], uv[2])
        ishop == t.motif.edges[CHOOSE i \in DOMAIN t.motif.edges :
                     /\ t.motif.edges[i].u = uv[1] /\ t.motif.edges[i].v = uv[2]
                     /\ t.motif.edges[i].key = 0].ish
        path == DGet(row.p, uv)
        f == FilterEdge(GetEdge(h, row.m, path), row.w)
        \* r[0] if is_hop else r
        dicts == IF ishop THEN <<f.list[1]>> ELSE f.list
        \* the filter by the motif's edge labels
        kept == [none |-> FALSE, items |-> SelectSeq(dicts[1].items, LAMBDA it : it.labels \cap labels # {})]
        final == IF labels # {} THEN <<kept>> ELSE dicts
        d == AttrOfDicts(<<>>, final, attr)
    IN IF ~DHas(row.p, uv) \/ \E i \in DOMAIN path : path[i] \notin DOMAIN row.m
       THEN [none EXCEPT !.err = "KeyError"]
       ELSE IF f.err # "" THEN [none EXCEPT !.err = f.err]
       ELSE IF ishop /\ f.list = <<>> THEN [none EXCEPT !.err = "IndexError"]
       ELSE IF labels # {} /\ (~ishop \/ dicts[1].none
                              \/ \E i \in DOMAIN dicts[1].items : dicts[1].items[i].null \/ ~dicts[1].items[i].haslab)
            THEN [none EXCEPT !.err = "AttributeError"]
       ELSE IF labels # {} /\ kept.items = <<>> THEN [none EXCEPT !.drop = TRUE]
       ELSE IF \E i \in DOMAIN final : final[i].none \/ \E j \in DOMAIN final[i].items : final[i].items[j].null
            THEN [none EXCEPT !.err = "AttributeError"]
       ELSE IF \E i \in DOMAIN final : \E j \in DOMAIN final[i].items :
                   final[i].items[j].haslab /\ final[i].items[j].labels = {}
            THEN [none EXCEPT !.err = "IndexError"]
       ELSE [none EXCEPT !.cell = DictCell("edge", [i \in DOMAIN d |->
                                    [i |-> d[i].k[1], lab |-> d[i].k[2], v |-> d[i].v, d |-> 1]])]

\* ret of an edge data path, cells the outcomes [err, drop, cell] of the
\* matches in order
PutEdgeCells(acc, dp, cells) ==
    IF FirstErr(cells) # "" THEN [acc EXCEPT !.err = FirstErr(cells)]
    ELSE LET kept == SelectSeq(cells, LAMBDA c : ~c.drop)
         IN [acc EXCEPT !.res = DPut(@, dp, [i \in DOMAIN kept |-> kept[i].cell])]

\* the second loop of _lookup over one data path
LookupPath(t, h, rows, acc, dp) ==
    IF dp \in acc.done THEN acc
    ELSE IF InSeq(dp.ent, t.motif.nodes)
    THEN IF \E i \in DOMAIN rows : dp.ent \notin DOMAIN rows[i].m
         THEN [acc EXCEPT !.err = "KeyError"]
         ELSE [acc EXCEPT !.res = DPut(@, dp,
                  [i \in DOMAIN rows |->
                      IF dp.attr # "" THEN ValCell(AttrGet(h.nattr[rows[i].m[dp.ent]], dp.attr))
                      ELSE NodeCell(rows[i].m[dp.ent])])]
    ELSE PutEdgeCells(acc, dp,
             [i \in DOMAIN rows |-> EdgeCell(t, h, rows[i], DGet(t.returnEdges, dp.ent), dp.attr)])

RECURSIVE LookupPaths(_, _, _, _, _)
LookupPaths(t, h, rows, acc, dps) ==
    IF dps = <<>> \/ acc.err # "" THEN acc
    ELSE LookupPaths(t, h, rows, LookupPath(t, h, rows, acc, Head(dps)), Tail(dps))

\* the two loops of _lookup over the true matches tm = [err, t]; the
\* accumulator is [err, t, res, done]
LookupMatches(tm, h, dps) ==
    IF tm.err # "" THEN [err |-> tm.err, t |-> tm.t, res |-> <<>>, done |-> {}]
    ELSE LookupPaths(tm.t, h, tm.t.matches,
                     LookupIds(tm.t, tm.t.matches, [err |-> "", t |-> tm.t, res |-> <<>>, done |-> {}], dps),
                     dps)

\* _lookup(data_paths, slice(0, None)): [err, t, res, done]
Lookup(t, h, dps) ==
    IF dps = <<>> THEN [err |-> "", t |-> t, res |-> <<>>, done |-> {}]
    ELSE LookupMatches(GetTrueMatches(t, h), h, dps)

-----------------------------------------------------------------------------
(* aggregate.  A number is the fraction v / d (d = 1 but for an AVG); the  *)
(* labels of a group, a Python set, are taken in ascending order.          *)

RECURSIVE Gcd(_, _)
Gcd(a, b) == IF b = 0 THEN a ELSE Gcd(b, a % b)

\* sum / count as a fraction in lowest terms
Fraction(sum, count) ==
    IF sum = 0 THEN [v |-> 0, d |-> 1]
    ELSE [v |-> sum \div Gcd(sum, count), d |-> count \div Gcd(sum, count)]

RECURSIVE SumSeq(_)
SumSeq(s) == IF s = <<>> THEN 0 ELSE Head(s) + SumSeq(Tail(s))

RECURSIVE Ascending(_)
Ascending(S) ==
    IF S = {} THEN <<>>
    ELSE LET lo == CHOOSE x \in S : \A y \in S : x <= y IN <<lo>> \o Ascending(S \ {lo})

SeqMin(s) == CHOOSE x \in Range(s) : \A y \in Range(s) : x <= y

SeqMax(s) == CHOOSE x \in Range(s) : \A y \in Range(s) : x >= y

\* v or 0
OrZero(x) == IF x = None THEN 0 ELSE x

RECURSIVE GroupRows(_, _, _, _)
\* grouped_data: group tuple -> the cells of the entity, in first-seen order
GroupRows(acc, tuples, cells, i) ==
    IF i > Len(cells) THEN acc
    ELSE LET old == IF DHas(acc, tuples[i]) THEN DGet(acc, tuples[i]) ELSE <<>>
         IN GroupRows(DPut(acc, tuples[i], Append(old, cells[i])), tuples, cells, i + 1)

\* the entries of a group's cells, in order
GroupEntries(data) == Flatten([i \in DOMAIN data |-> data[i].ents])

CollateSkipping(data, label, func) ==
    LET es == SelectSeq(GroupEntries(data), LAMBDA e : e.lab = label /\ e.v # None)
    IN [i \in DOMAIN es |-> es[i].v]

\* _collate_data for one label
CollateData(data, label, func) ==
    LET es == SelectSeq(GroupEntries(data), LAMBDA e : e.lab = label)
    IN IF func \in {"COUNT", "SUM", "AVG"}
       THEN [i \in DOMAIN es |-> OrZero(es[i].v)]
       ELSE LET some == SelectSeq(es, LAMBDA e : e.v # None) IN [i \in DOMAIN some |-> some[i].v]

\* the aggregate of one group and label: [err, v, d]
AggregateLabel(data, label, func) ==
    LET c == CollateData(data, label, func)
    IN CASE func = "COUNT" -> [err |-> "", v |-> Len(c), d |-> 1]
         [] func = "SUM" -> [err |-> "", v |-> SumSeq(c), d |-> 1]
         [] func = "AVG" -> IF Len(c) > 0
                            THEN [err |-> ""] @@ Fraction(SumSeq(c), Len(c))
                            ELSE [err |-> "", v |-> 0, d |-> 1]
         [] func = "MAX" -> IF c = <<>> THEN [err |-> "ValueError", v |-> 0, d |-> 1]
                            ELSE [err |-> "", v |-> SeqMax(c), d |-> 1]
         [] OTHER -> IF c = <<>> THEN [err |-> "ValueError", v |-> 0, d |-> 1]
                     ELSE [err |-> "", v |-> SeqMin(c), d |-> 1]

\* the dict {label: value} of one group, per the aggregates [err, v, d]
\* of its labels: [err, cell]
GroupCell(labels, per) ==
    IF FirstErr(per) # "" THEN [err |-> "ValueError", cell |-> DictCell("agg", <<>>)]
    ELSE [err |-> "",
          cell |-> DictCell("agg", [i \in DOMAIN labels |->
                       [i |-> 0, lab |-> labels[i], v |-> per[i].v, d |-> per[i].d]])]

\* the aggregate of one group: [err, cell]
AggregateGroup(data, func) ==
    IF \E i \in DOMAIN data : data[i].kind # "edge"
    THEN [err |-> "AttributeError", cell |-> DictCell("agg", <<>>)]
    ELSE LET labels == Ascending({e.lab : e \in Range(GroupEntries(data))})
         IN GroupCell(labels, [i \in DOMAIN labels |-> AggregateLabel(data, labels[i], func)])

\* aggregate_results, per the outcomes [err, cell] of the groups: [err, col]
GroupCells(per) ==
    IF FirstErr(per) # "" THEN [err |-> FirstErr(per), col |-> <<>>]
    ELSE [err |-> "", col |-> [g \in DOMAIN per |-> per[g].cell]]

\* aggregate(func, results, entity, group_keys): [err, col]
Aggregate(func, res, entity, groupKeys) ==
    LET cells == DGet(res, entity)
        keys == SelectSeq(groupKeys, LAMBDA k : DHas(res, k))
        tuples == [i \in DOMAIN cells |-> [j \in DOMAIN keys |-> DGet(res, keys[j])[i]]]
        groups == GroupRows(<<>>, tuples, cells, 1)
    IN IF ~DHas(res, entity) THEN [err |-> "KeyError", col |-> <<>>]
       ELSE IF \E j \in DOMAIN keys : Len(DGet(res, keys[j])) < Len(cells)
       THEN [err |-> "IndexError", col |-> <<>>]
       ELSE IF \E i \in DOMAIN tuples : \E j \in DOMAIN keys : tuples[i][j].kind # "val"
       THEN [err |-> "TypeError", col |-> <<>>]
       ELSE GroupCells([g \in DOMAIN groups |-> AggregateGroup(groups[g].v, func)])

-----------------------------------------------------------------------------
(* _apply_order_by *)

\* a < b for fractions
KeyLess(a, b) == a.v * b.d < b.v * a.d

\* x comes strictly before y in the requested direction
Before(x, y, desc) == IF desc THEN KeyLess(y, x) ELSE KeyLess(x, y)

RECURSIVE InsertStable(_, _, _, _)
\* x goes behind every element that is not strictly after it
InsertStable(sorted, x, key, desc) ==
    IF sorted = <<>> THEN <<x>>
    ELSE IF Before(key[x], key[Head(sorted)], desc) THEN <<x>> \o sorted
    ELSE <<Head(sorted)>> \o InsertStable(Tail(sorted), x, key, desc)

RECURSIVE SortedStable(_, _, _, _)
\* sorted(s, key=.., reverse=desc): stable in both directions
SortedStable(acc, s, key, desc) ==
    IF s = <<>> THEN acc
    ELSE SortedStable(InsertStable(acc, Head(s), key, desc), Tail(s), key, desc)

\* a dict cell with its keys sorted by value (None as 0)
SortCell(c, desc) ==
    LET key == [i \in DOMAIN c.ents |-> [v |-> OrZero(c.ents[i].v), d |-> c.ents[i].d]]
        order == SortedStable(<<>>, [i \in DOMAIN c.ents |-> i], key, desc)
    IN [c EXCEPT !.ents = [i \in DOMAIN order |-> c.ents[order[i]]]]

\* one pass of the loop over reversed(sort_lists): [err, res, indices]
OrderPass(acc, ob) ==
    LET col == DGet(acc.res, ob.field)
        desc == ob.dir = "DESC"
        isDict == \A i \in DOMAIN col : col[i].kind # "val"
        sortedCol == [i \in DOMAIN col |-> SortCell(col[i], desc)]
        dictKey == [i \in DOMAIN col |-> [v |-> OrZero(sortedCol[i].ents[1].v), d |-> sortedCol[i].ents[1].d]]
        valKey == [i \in DOMAIN col |-> [v |-> col[i].v, d |-> 1]]
    IN IF \E i \in DOMAIN acc.indices : acc.indices[i] > Len(col)
       THEN [acc EXCEPT !.err = "IndexError"]
       ELSE IF isDict
       THEN IF \E i \in DOMAIN acc.indices : col[acc.indices[i]].kind = "node"
            THEN [acc EXCEPT !.err = "TypeError"]
            ELSE IF \E i \in DOMAIN acc.indices : col[acc.indices[i]].ents = <<>>
            THEN [acc EXCEPT !.err = "IndexError"]
            ELSE [acc EXCEPT !.indices = SortedStable(<<>>, acc.indices, dictKey, desc),
                             !.res = DPut(@, ob.field, sortedCol)]
       ELSE IF Len(acc.indices) >= 2 /\ \E i \in DOMAIN acc.indices : col[acc.indices[i]].v = None
            THEN [acc EXCEPT !.err = "TypeError"]
            ELSE [acc EXCEPT !.indices = SortedStable(<<>>, acc.indices, valKey, desc)]

RECURSIVE OrderPasses(_, _, _)
OrderPasses(acc, obs, i) ==
    IF i = 0 \/ acc.err # "" THEN acc ELSE OrderPasses(OrderPass(acc, obs[i]), obs, i - 1)

\* _apply_order_by: [err, res]
ApplyOrderBy(t, res) ==
    IF t.orderBy = <<>> THEN [err |-> "", res |-> res]
    ELSE IF \E i \in DOMAIN t.orderBy : ~DHas(res, t.orderBy[i].field)
    THEN [err |-> "KeyError", res |-> res]
    ELSE LET start == [err |-> "", res |-> res, indices |-> [i \in 1 .. Len(res[1].v) |-> i]]
             done == OrderPasses(start, t.orderBy, Len(t.orderBy))
         IN IF done.err # "" THEN [err |-> done.err, res |-> res]
            ELSE IF \E k \in DOMAIN done.res : \E i \in DOMAIN done.indices :
                        done.indices[i] > Len(done.res[k].v)
            THEN [err |-> "IndexError", res |-> res]
            ELSE [err |-> "",
                  res |-> [k \in DOMAIN done.res |->
                              [k |-> done.res[k].k,
                               v |-> [i \in DOMAIN done.indices |-> done.res[k].v[done.indices[i]]]]]]

-----------------------------------------------------------------------------
(* _apply_distinct, _apply_pagination, returns *)

RECURSIVE FirstOccurrences(_, _, _)
\* unique_rows: the index of the first occurrence of each row key
FirstOccurrences(acc, keys, i) ==
    IF i > Len(keys) THEN acc
    ELSE FirstOccurrences(IF \E j \in DOMAIN acc : keys[acc[j]] = keys[i] THEN acc ELSE Append(acc, i),
                          keys, i + 1)

RECURSIVE AppendRow(_, _, _, _)
\* for key in self._return_requests: distinct_results[key].append(..)
AppendRow(d, res, rr, index) ==
    IF rr = <<>> THEN d
    ELSE AppendRow(DPut(d, Head(rr), Append(DGet(d, Head(rr)), DGet(res, Head(rr))[index])),
                   res, Tail(rr), index)

RECURSIVE AppendRows(_, _, _, _)
AppendRows(d, res, rr, idx) ==
    IF idx = <<>> THEN d ELSE AppendRows(AppendRow(d, res, rr, Head(idx)), res, rr, Tail(idx))

DistinctAssertOff(t) == FALSE

\* the assert of _apply_distinct fails
DistinctAssertFails(t) ==
    t.orderBy # <<>> /\ ~(Range(t.orderByAttrs) \subseteq Range(t.returnRequests))

\* _apply_distinct: [err, res]
ApplyDistinct(t, res) ==
    LET rr == t.returnRequests
        cols == SelectSeq(rr, LAMBDA k : DHas(res, k))
        n == Len(res[1].v)
        keys == [i \in 1 .. n |-> [j \in DOMAIN cols |-> DGet(res, cols[j])[i]]]
        idx == FirstOccurrences(<<>>, keys, 1)
        empty == DUpdate(<<>>, [i \in DOMAIN rr |-> [k |-> rr[i], v |-> <<>>]])
    IN IF DistinctAssertFails(t)
       THEN [err |-> "AssertionError", res |-> res]
       ELSE IF res = <<>> THEN [err |-> "StopIteration", res |-> res]
       ELSE IF n > 0 /\ \E j \in DOMAIN cols : Len(DGet(res, cols[j])) < n
       THEN [err |-> "IndexError", res |-> res]
       ELSE IF \E i \in 1 .. n : \E j \in DOMAIN cols : keys[i][j].kind # "val"
       THEN [err |-> "TypeError", res |-> res]
       ELSE IF n > 0 /\ \E i \in DOMAIN rr : ~DHas(res, rr[i])
       THEN [err |-> "KeyError", res |-> res]
       ELSE [err |-> "", res |-> AppendRows(empty, res, rr, idx)]

\* values[start:end]
Slice(s, start, end) == SubSeq(s, start + 1, Min2(end, Len(s)))

\* _apply_pagination(results, ignore_limit = False)
ApplyPagination(t, res) ==
    IF res = <<>> \/ \A k \in DOMAIN res : res[k].v = <<>> THEN res
    ELSE LET length == Len(res[1].v)
             start == Min2(t.skip, length)
             end == IF t.limit # NoLimit THEN Min2(start + t.limit, length) ELSE length
         IN IF length = 0 THEN res
            ELSE [k \in DOMAIN res |-> [k |-> res[k].k, v |-> Slice(res[k].v, start, end)]]

\* self._entity2alias.get(k, k)
AliasOf(t, k) == IF DHas(t.entity2alias, k) THEN DGet(t.entity2alias, k) ELSE k

EntityOf(t, k) == IF DHas(t.alias2entity, k) THEN DGet(t.alias2entity, k) ELSE k

\* {self._entity2alias.get(k, k): v for k, v in results.items()}
Renamed(t, res) == DUpdate(<<>>, [i \in DOMAIN res |-> [k |-> AliasOf(t, res[i].k), v |-> res[i].v]])

\* aggregated_results[func_key] = aggregated_data, a the outcome [err, col]
\* of aggregate
PutAggregate(acc, key, a) ==
    IF a.err # "" THEN [acc EXCEPT !.err = a.err]
    ELSE [acc EXCEPT !.agg = DPut(@, key, a.col), !.t.returnRequests = Append(@, key)]

RECURSIVE Aggregates(_, _, _, _)
\* the loop over self._aggregate_functions: [err, t, agg]
Aggregates(acc, res, groupKeys, fs) ==
    IF fs = <<>> \/ acc.err # "" THEN acc
    ELSE Aggregates(PutAggregate(acc, FormatAggregationKey(Head(fs).func, Head(fs).entity),
                                 Aggregate(Head(fs).func, res, Head(fs).entity, groupKeys)),
                    res, groupKeys, Tail(fs))

\* returns() from the pagination on, r the outcome [err, res] of DISTINCT
ReturnsPaged(t, r) ==
    IF r.err # "" THEN [err |-> r.err, t |-> t, res |-> <<>>]
    ELSE [err |-> "", t |-> t,
          res |-> Renamed(t, SelectSeq(ApplyPagination(t, r.res),
                      LAMBDA c : InSeq(c.k, t.returnRequests) \/ InSeq(EntityOf(t, c.k), t.returnRequests)))]

\* returns() from DISTINCT on, r the outcome [err, res] of the ordering
ReturnsOrdered(t, r) ==
    IF r.err # "" THEN [err |-> r.err, t |-> t, res |-> <<>>]
    ELSE ReturnsPaged(t, IF t.distinct THEN ApplyDistinct(t, r.res) ELSE r)

\* returns() from the rename on, res the looked-up results and ag the
\* outcome [err, t, agg] of the aggregation
ReturnsAggregated(res, ag) ==
    IF ag.err # "" THEN [err |-> ag.err, t |-> ag.t, res |-> <<>>]
    ELSE ReturnsOrdered(ag.t, ApplyOrderBy(ag.t, Renamed(ag.t, DUpdate(res, ag.agg))))

\* returns() from the aggregation on, lk the outcome [err, t, res] of _lookup
ReturnsLookedUp(t0, lk) ==
    IF lk.err # "" THEN [err |-> lk.err, t |-> lk.t, res |-> <<>>]
    ELSE LET groupKeys == SelectSeq(DKeys(lk.res),
                 LAMBDA key : ~\E i \in DOMAIN t0.aggFuncs : EndsWith(key, t0.aggFuncs[i].entity))
         IN ReturnsAggregated(lk.res,
                Aggregates([err |-> "", t |-> lk.t, agg |-> <<>>], lk.res, groupKeys, t0.aggFuncs))

\* returns(): [err, t, res]
Returns(t0, h) ==
    ReturnsLookedUp(t0,
        Lookup(t0, h, SelectSeq(t0.returnRequests \o t0.orderByAttrs \o t0.aggAttrs,
                                LAMBDA d : ~DHas(t0.alias2entity, d))))

-----------------------------------------------------------------------------
(* GrandCypher.  host is the graph handed to the constructor and limit0    *)
(* its limit argument, tr the state of self._transformer, out the outcome  *)
(* [err, res] of the last run, hist the (query, hints) of the runs so far. *)

RECURSIVE WhereParses(_)
\* the conditions that compound_condition derives: comparisons (NOT is the
\* shouldbe of a comparison) joined by AND and OR
WhereParses(c) ==
    CASE c.t \in {"none", "cmp"} -> TRUE
      [] c.t \in {"and", "or"} -> WhereParses(c.a) /\ WhereParses(c.b)
      [] OTHER -> FALSE

\* transform(_GrandCypherGrammar.parse(cypher), hints): a text the grammar
\* does not derive raises in parse, before transform is called
Parsed(t, q, hints) ==
    IF WhereParses(q.where) THEN Transform(t, q, hints) ELSE [t EXCEPT !.err = "UnexpectedInput"]

\* GrandCypher.run, t the transformer state that transform leaves:
\* returns() unless transform raised, [err, t, res]
RunOn(t, h) == IF t.err # "" THEN [err |-> t.err, t |-> t, res |-> <<>>] ELSE Returns(t, h)

\* GrandCypher(host, limit).run(cypher, hints) on a new object: [err, res]
FreshRun(h, limit, q, hints) ==
    LET r == RunOn(Parsed(NewTransformer(limit), q, hints), h) IN [err |-> r.err, res |-> r.res]

NoOut == [err |-> "", res |-> <<>>]

Run(q, hints) ==
    \E r \in {RunOn(Parsed(tr, q, hints), host)} :
        /\ tr' = r.t
        /\ out' = [err |-> r.err, res |-> r.res]
        /\ hist' = Append(hist, [q |-> q, hints |-> hints])
        /\ UNCHANGED <<host, limit0, ix, memo>>

-----------------------------------------------------------------------------
(* indexer.py: the attribute indexer over the nodes of the host.  ix is an *)
(* ArrayAttributeIndexer(entity_ids=list(host.nodes),                      *)
(* entity_attributes=list(host.nodes.values())) with the result of the     *)
(* last find: [keys, err, found, dom].  A domain is [none, d]: none when   *)
(* the AST returned None, else d the dict variable -> set of ids.          *)

\* LRUCache(maxsize=4)
QuerierCacheSize == 4

\* cache lists the cached queriers from the least to the most recently
\* used, each by its key and its class (inc: IncrementIndexQuerier)
NewIndexer == [keys |-> {}, err |-> "", found |-> FALSE, dom |-> [none |-> TRUE, d |-> <<>>], cache |-> <<>>]

\* key in self._querier_cache
IsCachedKey(c, key) == \E i \in DOMAIN c : c[i].k = key

\* [attribs.get(key) for attribs in self.entity_attributes]
AttributeValues(h, key) == [i \in 1 .. h.n |-> AttrGet(h.nattr[i], key)]

\* sorted() compares the values with <: a None among two or more values
\* raises TypeError
SortRaises(vals) == Len(vals) >= 2 /\ \E i \in DOMAIN vals : vals[i] = None

InsertIndex(s, vals, i) ==
    LET k == Cardinality({j \in DOMAIN s : vals[s[j]] <= vals[i]})
    IN SubSeq(s, 1, k) \o <<i>> \o SubSeq(s, k + 1, Len(s))

RECURSIVE SortedIndices(_, _)
\* sorted(range(len(values)), key=lambda i: values[i]), a stable sort
SortedIndices(vals, n) == IF n = 0 THEN <<>> ELSE InsertIndex(SortedIndices(vals, n - 1), vals, n)

\* create_indices(keys=[key]) with _make_index
CreateIndices(x, h, key) ==
    IF SortRaises(AttributeValues(h, key)) THEN [x EXCEPT !.err = "TypeError"]
    ELSE [x EXCEPT !.keys = @ \cup {key}, !.err = ""]

\* the class of the querier get_index_querier returns: that of the cached
\* querier when the cache holds the key, else by whether the key is indexed
QuerierIsIncrement(x, key) ==
    IF IsCachedKey(x.cache, key) THEN x.cache[CHOOSE i \in DOMAIN x.cache : x.cache[i].k = key].inc
    ELSE key \in x.keys

\* get_index_querier: an IncrementIndexQuerier over the sorted arrays of
\* the key, or a NoIndexQuerier over the unsorted ones
GetIndexQuerier(x, h, key) ==
    IF QuerierIsIncrement(x, key)
    THEN [inc |-> TRUE,
          ids |-> SortedIndices(AttributeValues(h, key), h.n),
          attrs |-> [i \in 1 .. h.n |-> AttributeValues(h, key)[SortedIndices(AttributeValues(h, key), h.n)[i]]]]
    ELSE [inc |-> FALSE, ids |-> [i \in 1 .. h.n |-> i], attrs |-> AttributeValues(h, key)]

\* the cache after get_index_querier(key): a cached querier becomes the most
\* recently used; a new one is stored, the least recently used leaving a
\* full cache
CacheAfterGet(x, key) ==
    IF IsCachedKey(x.cache, key)
    THEN SelectSeq(x.cache, LAMBDA e : e.k # key) \o SelectSeq(x.cache, LAMBDA e : e.k = key)
    ELSE Append(IF Len(x.cache) >= QuerierCacheSize THEN Tail(x.cache) ELSE x.cache,
                [k |-> key, inc |-> key \in x.keys])

\* the indexer after get_index_querier(key)
AfterGet(x, key) == [x EXCEPT !.cache = CacheAfterGet(x, key)]

\* bisect_left and bisect_right on a sorted list
BisectLeft(a, val) == Cardinality({i \in DOMAIN a : a[i] < val})

BisectRight(a, val) == Cardinality({i \in DOMAIN a : a[i] <= val})

\* the ids at the positions S of a querier
IdsAt(qr, S) == {qr.ids[i] : i \in S \cap DOMAIN qr.ids}

\* IncrementIndexQuerier.lt, le, gt, ge, eq, ne
IncrementCompare(qr, op, val, lo, hi) ==
    CASE op = "<" -> IdsAt(qr, 1 .. lo)
      [] op = "<=" -> IdsAt(qr, 1 .. hi)
      [] op = ">" -> IdsAt(qr, (hi + 1) .. Len(qr.ids))
      [] op = ">=" -> IdsAt(qr, (lo + 1) .. Len(qr.ids))
      [] op = "==" -> IF lo = Len(qr.attrs) \/ qr.attrs[lo + 1] # val THEN {} ELSE IdsAt(qr, (lo + 1) .. hi)
      [] OTHER -> IF lo = Len(qr.attrs) \/ qr.attrs[lo + 1] # val THEN IdsAt(qr, DOMAIN qr.ids)
                  ELSE IdsAt(qr, DOMAIN qr.ids \ ((lo + 1) .. hi))

\* NoIndexQuerier.lt, le, gt, ge, eq, ne: a full scan that passes over None
NoIndexCompare(qr, op, val) ==
    {qr.ids[i] : i \in {j \in DOMAIN qr.ids :
        /\ qr.attrs[j] # None
        /\ CASE op = "<" -> qr.attrs[j] < val
             [] op = "<=" -> qr.attrs[j] <= val
             [] op = ">" -> qr.attrs[j] > val
             [] op = ">=" -> qr.attrs[j] >= val
             [] op = "==" -> qr.attrs[j] = val
             [] OTHER -> qr.attrs[j] # val}}

\* get_comparator(op)(val)
Comparator(qr, op, val) ==
    IF qr.inc THEN IncrementCompare(qr, op, val, BisectLeft(qr.attrs, val), BisectRight(qr.attrs, val))
    ELSE NoIndexCompare(qr, op, val)

\* Compare.__call__: {name: comparator(value)}, {key: {value}} for a key
\* without attribute
IndexerCompare(c, x, h) ==
    IF c.ent.attr = "" THEN [none |-> FALSE, d |-> [k \in {c.ent.ent} |-> {c.val}], x |-> x]
    ELSE [none |-> FALSE,
          d |-> [k \in {c.ent.ent} |-> Comparator(GetIndexQuerier(x, h, c.ent.attr), c.op, c.val)],
          x |-> AfterGet(x, c.ent.attr)]

\* AND.__call__: intersection on the common keys, the other keys as they are
IndexerAnd(ra, rb) ==
    IF ra.none THEN rb
    ELSE IF rb.none THEN [ra EXCEPT !.x = rb.x]
    ELSE [none |-> FALSE,
          d |-> [k \in DOMAIN ra.d \cup DOMAIN rb.d |->
                    IF k \in DOMAIN ra.d /\ k \in DOMAIN rb.d THEN ra.d[k] \cap rb.d[k]
                    ELSE IF k \in DOMAIN ra.d THEN ra.d[k] ELSE rb.d[k]],
          x |-> rb.x]

\* OR.__call__: union on the common keys, the other keys as they are
IndexerOr(ra, rb) ==
    IF ra.none \/ rb.none THEN [none |-> TRUE, d |-> <<>>, x |-> rb.x]
    ELSE [none |-> FALSE,
          d |-> [k \in DOMAIN ra.d \cup DOMAIN rb.d |->
                    IF k \in DOMAIN ra.d /\ k \in DOMAIN rb.d THEN ra.d[k] \cup rb.d[k]
                    ELSE IF k \in DOMAIN ra.d THEN ra.d[k] ELSE rb.d[k]],
          x |-> rb.x]

RECURSIVE IndexerAst(_, _, _)

\* ret_b = self._b(indexer), called on the indexer as ret_a left it
AndThen(ra, cb, h) == IndexerAnd(ra, IndexerAst(cb, ra.x, h))

OrThen(ra, cb, h) == IndexerOr(ra, IndexerAst(cb, ra.x, h))

\* the indexer AST of a condition, called on the indexer: Compare for a
\* comparison, AND and OR for and_ and or_, UnsupportedOp (None) otherwise.
\* [none, d, x]: the domain and the indexer after the call
IndexerAst(c, x, h) ==
    CASE c.t = "cmp" /\ c.shouldbe /\ c.op \in {"<", "<=", ">", ">=", "==", "<>"} -> IndexerCompare(c, x, h)
      [] c.t = "and" -> AndThen(IndexerAst(c.a, x, h), c.b, h)
      [] c.t = "or" -> OrThen(IndexerAst(c.a, x, h), c.b, h)
      [] OTHER -> [none |-> TRUE, d |-> <<>>, x |-> x]

\* the indexer after find returned the domain r
Found(r) == [r.x EXCEPT !.found = TRUE, !.dom = [none |-> r.none, d |-> r.d]]

\* IndexerConditionRunner.find
Find(x, h, c) == Found(IndexerAst(c, x, h))

-----------------------------------------------------------------------------
(* Inputs: host graphs as the tests build them, and queries as the grammar *)
(* parses them.  Edge labels are 10 and 11; attribute values are naturals. *)

\* host.add_edge(u, v, __labels__=labels, **attrs)
Edge(labels, attrs) == [haslab |-> TRUE, labels |-> labels, attrs |-> attrs]

\* a DiGraph: node 1 has two out-neighbours, nodes 1 and 3 tie on age, the
\* edge 2 -> 1 carries no val
HostA ==
    [n |-> 3, multi |-> FALSE,
     nattr |-> << [age |-> 20, grp |-> 1], [age |-> 30, grp |-> 1], [age |-> 20, grp |-> 2] >>,
     nlabels |-> << {}, {}, {} >>,
     edges |-> (<<1, 2>> :> << Edge({10}, [val |-> 9]) >>)
            @@ (<<1, 3>> :> << Edge({10}, [val |-> 40]) >>)
            @@ (<<2, 1>> :> << Edge({10}, [wgt |-> 7]) >>)]

\* a MultiDiGraph with parallel edges of two labels, one without val
HostB ==
    [n |-> 3, multi |-> TRUE,
     nattr |-> << [age |-> 30, grp |-> 1], [age |-> 20, grp |-> 2], [age |-> 20, grp |-> 2] >>,
     nlabels |-> << {}, {}, {} >>,
     edges |-> (<<1, 2>> :> << Edge({10}, [val |-> 9]), Edge({10}, [wgt |-> 7]), Edge({11}, [val |-> 4]) >>)
            @@ (<<2, 1>> :> << Edge({10}, [val |-> 14]) >>)
            @@ (<<1, 3>> :> << Edge({10}, [val |-> 5]) >>)]

\* a DiGraph whose node 2 has no age and whose only labelled pair has no val
HostC ==
    [n |-> 2, multi |-> FALSE,
     nattr |-> << [age |-> 20, grp |-> 1], [grp |-> 1] >>,
     nlabels |-> << {}, {} >>,
     edges |-> (<<1, 2>> :> << Edge({10}, [wgt |-> 7]) >>)
            @@ (<<2, 1>> :> << Edge({11}, [val |-> 3]) >>)]

Hosts == {HostA, HostB, HostC}

\* node_match of (name)
Nd(name) == [name |-> name, labels |-> {}, attrs |-> <<>>]

\* the edge -[name:types]->
Ed(name, types) == [name |-> name, types |-> types, dir |-> "r", minh |-> None, maxh |-> None]

\* MATCH (a)
OneNode == << [nodes |-> <<Nd("a")>>, edges |-> <<>>] >>

\* MATCH (a) MATCH (b)
TwoNodes == << [nodes |-> <<Nd("a")>>, edges |-> <<>>], [nodes |-> <<Nd("b")>>, edges |-> <<>>] >>

\* MATCH (a)-[r]->(b)
OneEdge == << [nodes |-> <<Nd("a"), Nd("b")>>, edges |-> <<Ed("r", {})>>] >>

\* RETURN items: path, path AS alias, FUNC(path)
Item(path) == [agg |-> FALSE, func |-> "", path |-> path, alias |-> ""]

ItemAs(path, alias) == [agg |-> FALSE, func |-> "", path |-> path, alias |-> alias]

AggItem(func, path) == [agg |-> TRUE, func |-> func, path |-> path, alias |-> ""]

\* ORDER BY item
By(path, dir) == [agg |-> FALSE, func |-> "", path |-> path, dir |-> dir]

\* WHERE ent.attr op val
Cmp(path, op, val) == [t |-> "cmp", shouldbe |-> TRUE, ent |-> path, op |-> op, val |-> val, vals |-> {}]

Query(clauses, where, ret, distinct, order, skip, limit) ==
    [clauses |-> clauses, where |-> where, ret |-> ret, distinct |-> distinct,
     order |-> order, skip |-> skip, limit |-> limit]

-----------------------------------------------------------------------------
(* The object after construction, and the families of runs that are        *)
(* explored.                                                               *)

MaxLimit == 2

MaxSkip == 1

MaxRuns == 2

\* the limit argument of the constructor
Limits == {NoLimit} \cup (1 .. MaxLimit)

\* SKIP and LIMIT as written in a query, None when absent
Skips == {None} \cup (1 .. MaxSkip)

QueryLimits == {None} \cup (1 .. MaxLimit)

Init ==
    /\ host \in Hosts
    /\ limit0 \in Limits
    /\ tr = NewTransformer(limit0)
    /\ out = NoOut
    /\ hist = <<>>
    /\ ix = NewIndexer
    /\ memo = NoMemo

\* the variable that stands second in a pattern
SecondVar(p) == IF p = OneNode THEN "a" ELSE "b"

ShapeReturns(sv) ==
    { <<Item(Path("a", "age"))>>,
      <<Item(Path("a", "age")), Item(Path(sv, "grp"))>>,
      <<ItemAs(Path("a", "age"), "x")>> }

ShapeOrders(sv) ==
    { <<>>,
      <<By(Path("a", "age"), "desc")>>,
      <<By(Path(sv, "grp"), "desc"), By(Path("a", "age"), "no_direction")>> }

ShapeWheres(sv) == {NoWhere, Cmp(Path(sv, "grp"), "==", 1), Cmp(Path(sv, "grp"), "==", 9)}

\* queries over node attributes for one pattern
ShapeOf(p) ==
    {Query(p, w, r, d, o, s, l) :
        w \in ShapeWheres(SecondVar(p)), r \in ShapeReturns(SecondVar(p)), d \in BOOLEAN,
        o \in ShapeOrders(SecondVar(p)), s \in Skips, l \in QueryLimits}

\* one component, two components, an edge
ShapeQueries == UNION {ShapeOf(p) : p \in {OneNode, TwoNodes, OneEdge}}

\* MATCH (a)-[r:10]->(b)
TypedEdge == << [nodes |-> <<Nd("a"), Nd("b")>>, edges |-> <<Ed("r", {10})>>] >>

AggFuncs == {"COUNT", "SUM", "AVG", "MIN", "MAX"}

AggReturns(f) ==
    { <<Item(Path("a", "age")), AggItem(f, Path("r", "val"))>>,
      <<AggItem(f, Path("r", "val"))>>,
      <<Item(Path("a", "age")), Item(Path("b", "age")), AggItem(f, Path("r", "val"))>> }

\* ORDER BY FUNC(r.val) DESC
AggOrders(f) == { <<>>, << [agg |-> TRUE, func |-> f, path |-> Path("r", "val"), dir |-> "desc"] >> }

AggOf(f) ==
    {Query(p, NoWhere, r, FALSE, o, None, l) :
        p \in {OneEdge, TypedEdge}, r \in AggReturns(f), o \in AggOrders(f), l \in QueryLimits}

\* queries that aggregate an edge attribute
AggQueries == UNION {AggOf(f) : f \in AggFuncs}

\* one run of an aggregating query on a new object
RunAgg == hist = <<>> /\ \E q \in AggQueries : Run(q, <<>>)

SpecAgg == Init /\ [][RunAgg]_vars

\* MATCH (a)-[r]->(b) RETURN a.age, b.age, SUM(r.val)
SumQuery ==
    Query(OneEdge, NoWhere,
          <<Item(Path("a", "age")), Item(Path("b", "age")), AggItem("SUM", Path("r", "val"))>>,
          FALSE, <<>>, None, None)

\* the queries that are run one after the other on one object
ReuseQueries ==
    { Query(OneNode, NoWhere, <<Item(Path("a", "age"))>>, FALSE, <<>>, None, None),
      Query(OneNode, Cmp(Path("a", "grp"), "==", 1), <<Item(Path("a", "grp"))>>, TRUE, <<>>, None, None),
      Query(OneNode, NoWhere, <<Item(IdPath("a"))>>, FALSE, <<>>, 1, 1),
      Query(OneEdge, NoWhere, <<Item(Path("a", "age")), Item(Path("b", "grp"))>>, FALSE,
            <<By(Path("b", "grp"), "desc")>>, None, None),
      Query(TwoNodes, NoWhere, <<Item(Path("a", "age")), Item(Path("b", "age"))>>, FALSE, <<>>, None, None),
      SumQuery }

\* a further run on the same object
RunReuse == Len(hist) < MaxRuns /\ \E q \in ReuseQueries : Run(q, <<>>)

SpecReuse == Init /\ [][RunReuse]_vars

MaxHints == 2

\* the variables a pattern binds
PatternVars(p) == IF p = OneNode THEN {"a"} ELSE {"a", "b"}

\* hints as run() takes them: partial mappings of the variables to host nodes
HintsFor(h, p) == UNION {[S -> HostNodes(h)] : S \in (SUBSET PatternVars(p)) \ {{}}}

HintLists(h, p) == UNION {[1 .. k -> HintsFor(h, p)] : k \in 1 .. MaxHints}

HintOf(p) ==
    {Query(p, w, <<Item(IdPath("a")), Item(Path(SecondVar(p), "age"))>>, FALSE, o, s, l) :
        w \in ShapeWheres("a"), o \in {<<>>, <<By(Path(SecondVar(p), "age"), "desc")>>},
        s \in Skips, l \in {None, 1}}

\* the queries that are run with hints
HintQueries ==
    HintOf(OneNode) \cup HintOf(OneEdge)
      \cup {Query(OneEdge, NoWhere, <<AggItem("SUM", Path("r", "val"))>>, FALSE, <<>>, None, None)}

\* one run with hints on a new object
RunHints == hist = <<>> /\ \E q \in HintQueries : \E hs \in HintLists(host, q.clauses) : Run(q, hs)

\* the objects that are run with hints: without and with a default limit
InitHints ==
    /\ host \in {HostA, HostC}
    /\ limit0 \in {NoLimit, 1}
    /\ tr = NewTransformer(limit0)
    /\ out = NoOut
    /\ hist = <<>>
    /\ ix = NewIndexer
    /\ memo = NoMemo

SpecHints == InitHints /\ [][RunHints]_vars

\* one run of a query over node attributes on a new object
RunShape == hist = <<>> /\ \E q \in ShapeQueries : Run(q, <<>>)

SpecShape == Init /\ [][RunShape]_vars

-----------------------------------------------------------------------------
(* Properties of one run on a new object *)

FirstRun == Len(hist) = 1

\* the query of the first run
Q1 == hist[1].q

HasAgg(q) == \E i \in DOMAIN q.ret : q.ret[i].agg

\* the rows [s, s + n) of a column
Window(col, s, n) == SubSeq(col, s + 1, IF s + n < Len(col) THEN s + n ELSE Len(col))

\* the paths of the RETURN items of q
ReturnedPaths(q) == {q.ret[i].path : i \in DOMAIN q.ret}

\* the rows of a result, each the tuple of its cells in column order
RowsOf(o) == IF o.res = <<>> THEN <<>>
             ELSE [i \in 1 .. Len(o.res[1].v) |-> [k \in DOMAIN o.res |-> o.res[k].v[i]]]

\* C3: on a new object without default limit, a query without ORDER BY and
\* aggregation that carries SKIP s LIMIT n returns, column by column, the
\* rows [s, s + n) of what the same query returns without SKIP and LIMIT.
C3_SkipLimitIsSlice ==
    (FirstRun /\ limit0 = NoLimit /\ Q1.order = <<>> /\ ~HasAgg(Q1) /\ Q1.skip # None /\ Q1.limit # None) =>
        LET base == FreshRun(host, NoLimit, [Q1 EXCEPT !.skip = None, !.limit = None], <<>>)
        IN base.err = "" =>
              /\ out.err = ""
              /\ DKeys(out.res) = DKeys(base.res)
              /\ \A k \in DOMAIN out.res : out.res[k].v = Window(base.res[k].v, Q1.skip, Q1.limit)

\* C4: on a new object without default limit, a query with ORDER BY and
\* LIMIT n returns the first n rows of what it returns without the LIMIT.
C4_LimitAfterOrder ==
    (FirstRun /\ limit0 = NoLimit /\ Q1.order # <<>> /\ Q1.limit # None /\ Q1.skip = None) =>
        LET base == FreshRun(host, NoLimit, [Q1 EXCEPT !.limit = None], <<>>)
        IN base.err = "" =>
              /\ out.err = ""
              /\ DKeys(out.res) = DKeys(base.res)
              /\ \A k \in DOMAIN out.res : out.res[k].v = Window(base.res[k].v, 0, Q1.limit)

\* the query that returns, unordered, the RETURN items of q and its ORDER BY keys
Unordered(q) ==
    LET extra == SelectSeq(q.order, LAMBDA o : o.path \notin ReturnedPaths(q))
    IN [q EXCEPT !.order = <<>>, !.ret = q.ret \o [i \in DOMAIN extra |-> Item(extra[i].path)]]

\* row x stands before row y: it is smaller on the first ORDER BY key on
\* which they differ, in that key's direction, or equal on all and earlier
RowBefore(base, order, x, y) ==
    LET key(r, j) == DGet(base.res, order[j].path)[r].v
    IN \/ \E j \in DOMAIN order :
             /\ \A i \in 1 .. (j - 1) : key(x, i) = key(y, i)
             /\ IF order[j].dir = "desc" THEN key(x, j) > key(y, j) ELSE key(x, j) < key(y, j)
       \/ (\A j \in DOMAIN order : key(x, j) = key(y, j)) /\ x < y

\* C5: a query with ORDER BY over node attributes, without DISTINCT, SKIP
\* and LIMIT, that returns normally returns the rows of the unordered query
\* in lexicographic order of the keys, each key in its own direction, rows
\* equal on every key in enumeration order, every column permuted alike.
C5_OrderByIsStableLexicographic ==
    (/\ FirstRun /\ limit0 = NoLimit /\ Q1.order # <<>> /\ ~Q1.distinct
     /\ Q1.skip = None /\ Q1.limit = None /\ out.err = "") =>
        LET base == FreshRun(host, NoLimit, Unordered(Q1), <<>>)
            n == Len(base.res[1].v)
            p == [i \in 1 .. n |->
                    CHOOSE x \in 1 .. n :
                        Cardinality({y \in 1 .. n : RowBefore(base, Q1.order, y, x)}) = i - 1]
        IN /\ base.err = ""
           /\ \A k \in DOMAIN out.res :
                 /\ Len(out.res[k].v) = n
                 /\ \A i \in 1 .. n : out.res[k].v[i] = DGet(base.res, out.res[k].k)[p[i]]

\* a run whose two-key ORDER BY had ties on the first key and reordered rows
C5_Witness ==
    /\ FirstRun /\ limit0 = NoLimit /\ Len(Q1.order) = 2 /\ ~Q1.distinct
    /\ Q1.skip = None /\ Q1.limit = None /\ out.err = ""
    /\ Len(out.res) = 2
    /\ \E i \in 1 .. (Len(out.res[1].v) - 1) :
          out.res[2].v[i] = out.res[2].v[i + 1] /\ out.res[1].v[i].v < out.res[1].v[i + 1].v
    /\ RowsOf(out) # RowsOf(FreshRun(host, NoLimit, [Q1 EXCEPT !.order = <<>>], <<>>))

\* C6: a RETURN DISTINCT query without ORDER BY, SKIP and LIMIT returns the
\* rows of the same query without DISTINCT, each distinct row once, in the
\* order of first occurrence, with or without aliases.
C6_DistinctKeepsFirstOccurrences ==
    (/\ FirstRun /\ limit0 = NoLimit /\ Q1.distinct /\ Q1.order = <<>>
     /\ Q1.skip = None /\ Q1.limit = None) =>
        LET base == FreshRun(host, NoLimit, [Q1 EXCEPT !.distinct = FALSE], <<>>)
            rows == RowsOf(out)
            all == RowsOf(base)
            first(r) == CHOOSE i \in DOMAIN all : all[i] = r /\ \A j \in 1 .. (i - 1) : all[j] # r
        IN base.err = "" =>
              /\ out.err = ""
              /\ DKeys(out.res) = DKeys(base.res)
              /\ \A k \in DOMAIN out.res : Len(out.res[k].v) = Len(out.res[1].v)
              /\ Range(rows) = Range(all)
              /\ \A i, j \in DOMAIN rows : i < j => rows[i] # rows[j] /\ first(rows[i]) < first(rows[j])

\* C7: a RETURN DISTINCT query whose ORDER BY names a key that is no RETURN
\* item fails, whatever the host graph and the matches.
C7_DistinctOrderByForeignKeyFails ==
    (FirstRun /\ Q1.distinct /\ \E j \in DOMAIN Q1.order : Q1.order[j].path \notin ReturnedPaths(Q1)) =>
        out.err # ""

\* such a query was run on a host that has matches, and the assertion failed
C7_Witness ==
    /\ FirstRun /\ Q1.distinct /\ Q1.where = NoWhere
    /\ \E j \in DOMAIN Q1.order : Q1.order[j].path \notin ReturnedPaths(Q1)
    /\ out.err = "AssertionError"

\* C1: whenever run returns normally, all columns of the result have the
\* same length, aggregating queries included.
C1_ColumnsHaveEqualLength ==
    (FirstRun /\ out.err = "") =>
        \A j, k \in DOMAIN out.res : Len(out.res[j].v) = Len(out.res[k].v)

\* the query that returns the non-aggregated RETURN items of q and then the
\* aggregated attributes themselves, one row per match
Raw(q) ==
    LET plain == SelectSeq(q.ret, LAMBDA it : ~it.agg)
        aggs == SelectSeq(q.ret, LAMBDA it : it.agg)
    IN [q EXCEPT !.order = <<>>, !.ret = plain \o [i \in DOMAIN aggs |-> Item(aggs[i].path)]]

\* the tuple of the non-aggregated RETURN items of q in row i of the raw result
GroupTuple(q, raw, i) ==
    LET plain == SelectSeq(q.ret, LAMBDA it : ~it.agg)
    IN [j \in DOMAIN plain |-> DGet(raw.res, plain[j].path)[i]]

RECURSIVE FirstSeen(_, _)
\* the distinct elements of s in the order of first occurrence
FirstSeen(acc, s) ==
    IF s = <<>> THEN acc
    ELSE FirstSeen(IF Head(s) \in Range(acc) THEN acc ELSE Append(acc, Head(s)), Tail(s))

\* the groups of q: the distinct tuples of its non-aggregated RETURN items
GroupsOf(q, raw) == FirstSeen(<<>>, [i \in 1 .. Len(raw.res[1].v) |-> GroupTuple(q, raw, i)])

\* the entries of the attribute path over the matches of group g
EntriesOf(q, raw, path, g) ==
    LET rows == SelectSeq([i \in 1 .. Len(raw.res[1].v) |-> i], LAMBDA i : GroupTuple(q, raw, i) = g)
    IN Flatten([i \in DOMAIN rows |-> DGet(raw.res, path)[rows[i]].ents])

\* C8: an aggregating query without ORDER BY, SKIP and LIMIT that returns
\* normally has one row per distinct tuple of its non-aggregated RETURN
\* items, in every column, and each aggregate covers the matches of its group.
C8_OneRowPerGroup ==
    (/\ FirstRun /\ limit0 = NoLimit /\ HasAgg(Q1) /\ Q1.order = <<>>
     /\ Q1.skip = None /\ Q1.limit = None /\ out.err = "") =>
        LET raw == FreshRun(host, NoLimit, Raw(Q1), <<>>)
            groups == GroupsOf(Q1, raw)
            plain == SelectSeq(Q1.ret, LAMBDA it : ~it.agg)
            aggs == SelectSeq(Q1.ret, LAMBDA it : it.agg)
        IN /\ raw.err = ""
           /\ \A k \in DOMAIN out.res : Len(out.res[k].v) = Len(groups)
           /\ \A j \in DOMAIN plain : \A g \in DOMAIN groups :
                 DGet(out.res, plain[j].path)[g] = groups[g][j]
           /\ \A j \in DOMAIN aggs : \A g \in DOMAIN groups :
                 {e.lab : e \in Range(DGet(out.res, FormatAggregationKey(aggs[j].func, aggs[j].path))[g].ents)}
                    = {e.lab : e \in Range(EntriesOf(Q1, raw, aggs[j].path, groups[g]))}

\* the aggregate that C9 asks for, of the entries es of one group and label,
\* matches the entry e of the aggregate cell
AggregateIs(func, es, e) ==
    LET present == SelectSeq(es, LAMBDA x : x.v # None)
        vals == {present[i].v : i \in DOMAIN present}
        sum == SumSeq([i \in DOMAIN present |-> present[i].v])
    IN CASE func = "COUNT" -> e.v = Len(es) /\ e.d = 1
         [] func = "SUM" -> e.v = sum /\ e.d = 1
         [] func = "AVG" -> e.v * Len(es) = sum * e.d
         [] func = "MIN" -> e.v \in vals /\ \A x \in vals : e.v <= x
         [] OTHER -> e.v \in vals /\ \A x \in vals : e.v >= x

\* C9: in the result of a query with one aggregation, without ORDER BY, SKIP
\* and LIMIT, the cell of a group holds for each edge label of the group:
\* COUNT the number of entries, missing values included; SUM the sum with
\* missing values as 0; AVG that sum over that number; MIN and MAX the
\* least and greatest of the values that are not missing.
C9_MissingValuesInAggregates ==
    (/\ FirstRun /\ limit0 = NoLimit /\ HasAgg(Q1) /\ Q1.order = <<>>
     /\ Q1.skip = None /\ Q1.limit = None /\ out.err = "") =>
        LET raw == FreshRun(host, NoLimit, Raw(Q1), <<>>)
            groups == GroupsOf(Q1, raw)
            agg == SelectSeq(Q1.ret, LAMBDA it : it.agg)[1]
            col == DGet(out.res, FormatAggregationKey(agg.func, agg.path))
        IN /\ Len(col) = Len(groups)
           /\ \A g \in DOMAIN groups :
                 LET es == EntriesOf(Q1, raw, agg.path, groups[g])
                 IN /\ \A x \in Range(es) : \E i \in DOMAIN col[g].ents : col[g].ents[i].lab = x.lab
                    /\ \A i, j \in DOMAIN col[g].ents : col[g].ents[i].lab = col[g].ents[j].lab => i = j
                    /\ \A i \in DOMAIN col[g].ents :
                          AggregateIs(agg.func, SelectSeq(es, LAMBDA x : x.lab = col[g].ents[i].lab),
                                      col[g].ents[i])

\* an AVG over the values 9, missing and 5 of one label came out as 14 / 3
C9_Witness ==
    /\ FirstRun /\ limit0 = NoLimit /\ Q1.order = <<>> /\ Q1.limit = None /\ out.err = ""
    /\ \E i \in DOMAIN Q1.ret : Q1.ret[i].agg /\ Q1.ret[i].func = "AVG"
    /\ \E k \in DOMAIN out.res : \E g \in DOMAIN out.res[k].v : \E i \in DOMAIN out.res[k].v[g].ents :
          out.res[k].v[g].ents[i].v = 14 /\ out.res[k].v[g].ents[i].d = 3

\* C2: a query run on an object that has run a query before returns what
\* it returns on a new object with the same host, limit and hints.
C2_ReuseEqualsFresh ==
    Len(hist) >= 2 =>
        out = FreshRun(host, limit0, hist[Len(hist)].q, hist[Len(hist)].hints)

\* the hints of the first run
H1 == hist[1].hints

\* every hint binds variables of the pattern to distinct host nodes that
\* carry the edges the pattern asks for between them
HintsConsistent ==
    \A i \in DOMAIN H1 :
        HintFits(tr.motif.nodes, H1[i], EdgeHopMotifs(tr.motif)[1].m, tr.motif, host)

\* every match agrees with a hint on all variables of that hint
MatchesAgreeWithHints ==
    \A r \in DOMAIN tr.matches : \E i \in DOMAIN H1 :
        \A x \in DOMAIN H1[i] : x \in DOMAIN tr.matches[r].m /\ tr.matches[r].m[x] = H1[i][x]

-----------------------------------------------------------------------------
(* Hints that carry a key which is not a variable of the query *)

\* Hinter.take_hints_with_keys: each hint restricted to the given keys
TakeHintsWithKeys(hints, keys) ==
    [i \in DOMAIN hints |-> [k \in (DOMAIN hints[i]) \cap keys |-> hints[i][k]]]

\* hints that bind "z", which no pattern declares, next to pattern variables
ForeignHints(h, p) ==
    UNION {[S \cup {"z"} -> HostNodes(h)] : S \in SUBSET PatternVars(p)}

\* a list of one such hint, or such a hint followed by a hint over the
\* variables of the pattern
ForeignHintLists(h, p) ==
    {<<f>> : f \in ForeignHints(h, p)}
      \cup {<<f, g>> : f \in ForeignHints(h, p), g \in HintsFor(h, p)}

ForeignQueries ==
    {Query(p, NoWhere, <<Item(IdPath("a"))>>, FALSE, <<>>, None, None) : p \in {OneNode, OneEdge}}

\* one run on a new object with a hint list that carries a foreign key
RunForeign ==
    hist = <<>> /\ \E q \in ForeignQueries : \E hs \in ForeignHintLists(host, q.clauses) : Run(q, hs)

SpecForeign == InitHints /\ [][RunForeign]_vars

\* C11: a run whose hints carry a key that is not a variable of the motif
\* does not raise and returns what the run returns with that key removed
\* from the hints.
C11_ForeignHintKeyIsDiscarded ==
    FirstRun =>
        /\ out.err = ""
        /\ out.res = FreshRun(host, limit0, Q1,
                              TakeHintsWithKeys(H1, PatternVars(Q1.clauses))).res

-----------------------------------------------------------------------------
(* Variable-length edges and patterns of several components *)

\* the edge -[name:types*minh..maxh]->
EdHop(name, types, minh, maxh) ==
    [name |-> name, types |-> types, dir |-> "r", minh |-> minh, maxh |-> maxh]

\* MATCH (a)-[r*0..1]->(b)
ZeroOne == << [nodes |-> <<Nd("a"), Nd("b")>>, edges |-> <<EdHop("r", {}, 0, 1)>>] >>

\* MATCH (a)-[r*1..2]->(b)
OneTwo == << [nodes |-> <<Nd("a"), Nd("b")>>, edges |-> <<EdHop("r", {}, 1, 2)>>] >>

\* MATCH (a)-[*0..2]->(b)-[s]->(c)
Chain ==
    << [nodes |-> <<Nd("a"), Nd("b"), Nd("c")>>, edges |-> <<EdHop("", {}, 0, 2), Ed("s", {})>>] >>

\* MATCH (a)-[r]->(b) MATCH (c)-[s:11]->(d)
TwoEdges ==
    << [nodes |-> <<Nd("a"), Nd("b")>>, edges |-> <<Ed("r", {})>>],
       [nodes |-> <<Nd("c"), Nd("d")>>, edges |-> <<Ed("s", {11})>>] >>

\* MATCH (a)-[r*0..1]->(b)-[s*1..2]->(c)
TwoHops ==
    << [nodes |-> <<Nd("a"), Nd("b"), Nd("c")>>, edges |-> <<EdHop("r", {}, 0, 1), EdHop("s", {}, 1, 2)>>] >>

\* MATCH (a)-[r*0]->(b)
Exactly0 == << [nodes |-> <<Nd("a"), Nd("b")>>, edges |-> <<EdHop("r", {}, 0, None)>>] >>

\* MATCH (a)-[r*2]->(b)
Exactly2 == << [nodes |-> <<Nd("a"), Nd("b")>>, edges |-> <<EdHop("r", {}, 2, None)>>] >>

\* MATCH (a)-[r*2..3]->(b)-[s*0..1]->(c)
TwoThree ==
    << [nodes |-> <<Nd("a"), Nd("b"), Nd("c")>>, edges |-> <<EdHop("r", {}, 2, 3), EdHop("s", {}, 0, 1)>>] >>

HopPatterns == {ZeroOne, OneTwo, Chain, TwoHops, TwoThree, Exactly0, Exactly2, TwoEdges, TwoNodes}

\* the variables the MATCH clauses of a pattern name, in order of appearance
ClauseVars(p) == Dedup(Flatten([i \in DOMAIN p |-> [j \in DOMAIN p[i].nodes |-> p[i].nodes[j].name]]))

\* RETURN ID(x) for every variable x of the pattern
ReturnIds(p) == [i \in DOMAIN ClauseVars(p) |-> Item(IdPath(ClauseVars(p)[i]))]

HopQueries ==
    {Query(p, w, ReturnIds(p), FALSE, <<>>, None, l) :
        p \in HopPatterns, w \in {NoWhere, Cmp(Path("a", "grp"), "==", 1)}, l \in {None, 1}}

\* one run of such a query on a new object
RunHops == hist = <<>> /\ \E q \in HopQueries : Run(q, <<>>)

SpecHops == Init /\ [][RunHops]_vars

-----------------------------------------------------------------------------
(* Properties of the bindings *)

\* the expanded motif a kept match was found in
ExpandedOf(row) ==
    LET ems == EdgeHopMotifs(tr.motif)
    IN ems[CHOOSE i \in DOMAIN ems : ems[i].map = row.p].m

\* x and y are the endpoints of an edge that took zero hops in the row
ZeroHopPair(row, x, y) == <<x, y>> \in Range(ZeroHopEdges(row.p)) \/ <<y, x>> \in Range(ZeroHopEdges(row.p))

\* x and y lie in one weakly-connected component of the row's expanded motif
SameComponent(row, x, y) ==
    \E c \in Range(Components(ExpandedOf(row))) : x \in Range(c) /\ y \in Range(c)

\* C12 as stated: in every binding, two distinct motif variables that are
\* not the endpoints of a zero-hop edge are bound to different host nodes.
C12_RowsAreInjective ==
    (FirstRun /\ out.err = "") =>
        \A r \in DOMAIN tr.matches : \A x, y \in DOMAIN tr.matches[r].m :
            (x # y /\ tr.matches[r].m[x] = tr.matches[r].m[y]) => ZeroHopPair(tr.matches[r], x, y)

\* C12 amended: the same for two variables of one weakly-connected
\* component of the expanded motif; variables of different components may
\* share a host node.
C12_RowsAreInjectivePerComponent ==
    (FirstRun /\ out.err = "") =>
        \A r \in DOMAIN tr.matches : \A x, y \in DOMAIN tr.matches[r].m :
            (/\ x # y /\ SameComponent(tr.matches[r], x, y)
             /\ tr.matches[r].m[x] = tr.matches[r].m[y]) => ZeroHopPair(tr.matches[r], x, y)

\* a binding in which two variables of one component are bound to two host
\* nodes and a variable of another component shares one of them
C12_Witness ==
    /\ FirstRun /\ out.err = ""
    /\ \E r \in DOMAIN tr.matches : \E x, y, z \in DOMAIN tr.matches[r].m :
          /\ x # y /\ SameComponent(tr.matches[r], x, y)
          /\ ~SameComponent(tr.matches[r], x, z)
          /\ tr.matches[r].m[x] = tr.matches[r].m[z]
          /\ ~ZeroHopPair(tr.matches[r], x, z)

RECURSIVE CartesianProduct(_)
\* the product of lists of bindings, the first list varying slowest
CartesianProduct(lists) ==
    IF lists = <<>> THEN << <<>> >>
    ELSE Flatten([i \in DOMAIN Head(lists) |->
            [j \in DOMAIN CartesianProduct(Tail(lists)) |->
                Head(lists)[i] @@ CartesianProduct(Tail(lists))[j]]])

\* the matches of each weakly-connected component of an expanded motif
PerComponent(em) ==
    [k \in DOMAIN Components(em) |-> FindMotifs(Components(em)[k], em, tr.motif, host, <<>>).ms]

\* C13: without a limit, the bindings of an expanded motif that has several
\* weakly-connected components are the Cartesian product of the matches of
\* its components, the first component varying slowest and each component's
\* matches in their own order.
C13_BindingsAreCartesianProduct ==
    (FirstRun /\ tr.err = "" /\ tr.limit = NoLimit) =>
        \A i \in DOMAIN EdgeHopMotifs(tr.motif) :
            Len(Components(EdgeHopMotifs(tr.motif)[i].m)) > 1 =>
                MatchesIter(tr, EdgeHopMotifs(tr.motif)[i].m, host).ms
                    = CartesianProduct(PerComponent(EdgeHopMotifs(tr.motif)[i].m))

-----------------------------------------------------------------------------
(* The cap on the hop count: transform on queries whose edge is written    *)
(* with hop counts around the cap                                          *)

\* the hop counts written in the queries
HopCounts == {0, 1, 2, MaxHop - 1, MaxHop, MaxHop + 1}

\* (a)-[r*lo]->(b) and (a)-[r*lo..hi]->(b), in both directions
CapEdges ==
    {[EdHop("r", {}, lo, hi) EXCEPT !.dir = d] :
        lo \in HopCounts, hi \in {None} \cup HopCounts, d \in {"r", "l"}}

CapQueries ==
    {Query(<< [nodes |-> <<Nd("a"), Nd("b")>>, edges |-> <<e>>] >>, NoWhere,
           <<Item(IdPath("a"))>>, FALSE, <<>>, None, None) :
        e \in {c \in CapEdges : c.maxh = None \/ c.minh <= c.maxh}}

\* _GrandCypherTransformer.transform on a new object: the callbacks build
\* the motif, no matching takes place
TransformOnly ==
    /\ hist = <<>>
    /\ \E q \in CapQueries :
          /\ tr' = Transform(tr, q, <<>>)
          /\ hist' = Append(hist, [q |-> q, hints |-> <<>>])
    /\ UNCHANGED <<host, limit0, out, ix, memo>>

SpecCap == Init /\ [][TransformOnly]_vars

\* the largest hop count an edge is written with: *n stands for exactly n
WrittenMaxHop(e) == IF e.maxh = None THEN e.minh ELSE e.maxh

\* C14: building the motif fails exactly for an edge whose maximum hop
\* count exceeds 100; *100 and *1..100 are accepted, *1..101 is rejected.
C14_RejectedIffMoreThanHundredHops ==
    FirstRun => (tr.err # "" <=> WrittenMaxHop(Q1.clauses[1].edges[1]) > 100)

-----------------------------------------------------------------------------
(* Queries that reference "z", a variable no MATCH clause declares *)

\* MATCH (a)-[r:11]->(b): without a match on a host that has no such edge
Typed11 == << [nodes |-> <<Nd("a"), Nd("b")>>, edges |-> <<Ed("r", {11})>>] >>

UndeclaredWheres == {NoWhere, Cmp(Path("z", "grp"), "==", 1), Cmp(IdPath("z"), "==", 1)}

UndeclaredReturns == { <<Item(IdPath("a"))>>, <<Item(Path("z", "age"))>>, <<Item(IdPath("z"))>> }

UndeclaredOrders == { <<>>, <<By(Path("z", "age"), "desc")>> }

\* the variables a query references in WHERE, RETURN and ORDER BY
Referenced(q) ==
    (IF q.where.t = "cmp" THEN {q.where.ent.ent} ELSE {})
      \cup {q.ret[i].path.ent : i \in DOMAIN q.ret}
      \cup {q.order[i].path.ent : i \in DOMAIN q.order}

UndeclaredQueries ==
    {q \in {Query(p, w, r, FALSE, o, None, None) :
                p \in {OneNode, OneEdge, Typed11}, w \in UndeclaredWheres,
                r \in UndeclaredReturns, o \in UndeclaredOrders} : "z" \in Referenced(q)}

\* one run of such a query on a new object
RunUndeclared == hist = <<>> /\ \E q \in UndeclaredQueries : Run(q, <<>>)

SpecUndeclared == Init /\ [][RunUndeclared]_vars

\* C15: a query that references an undeclared variable in WHERE, RETURN or
\* ORDER BY fails with an error on every host, also on a host on which the
\* pattern has no match.
C15_UndeclaredVariableFails ==
    FirstRun => out.err # ""

-----------------------------------------------------------------------------
(* WHERE comparisons on attributes that some host nodes and edges lack *)

\* age is missing on a node of HostC, val on edges of every host; an edge
\* variable of a variable-length edge is looked up between its endpoints
WherePatterns == {OneNode, OneEdge, ZeroOne}

WhereOps == {"==", "<>", "<", ">="}

WhereOf(p) ==
    {Query(p, Cmp(e, op, v), <<Item(IdPath("a"))>>, FALSE, <<>>, None, None) :
        e \in {Path("a", "age")} \cup (IF p = OneNode THEN {} ELSE {Path("r", "val"), Path("b", "age")}),
        op \in WhereOps, v \in {9, 20}}

WhereQueries == UNION {WhereOf(p) : p \in WherePatterns}

\* one run of such a query on a new object
RunWhere == hist = <<>> /\ \E q \in WhereQueries : Run(q, <<>>)

SpecWhere == Init /\ [][RunWhere]_vars

\* the values the host holds for the entity of a comparison under a
\* binding: the attribute of the bound node, or of each host edge between
\* the bound endpoints of the edge variable (None: the attribute is missing)
HostValues(c, row) ==
    IF c.ent.ent \in DOMAIN row.m
    THEN <<AttrGet(host.nattr[row.m[c.ent.ent]], c.ent.attr)>>
    ELSE LET uv == DGet(tr.returnEdges, c.ent.ent)
             es == HostEdges(host, row.m[uv[1]], row.m[uv[2]])
         IN [i \in DOMAIN es |-> AttrGet(es[i].attrs, c.ent.attr)]

\* the comparison holds on a value that is present
HoldsOn(c, x) ==
    /\ x # None
    /\ CASE c.op = "==" -> x = c.val
         [] c.op = "<>" -> x # c.val
         [] c.op = "<" -> x < c.val
         [] OTHER -> x >= c.val

\* C16: a WHERE comparison over declared variables never raises, and a row
\* is kept only when the comparison holds on an attribute that is present:
\* a missing attribute makes the comparison false and the row is filtered
\* out, on single-edge and multi-edge hosts.
C16_WhereIsTotalAndMissingIsFalse ==
    FirstRun =>
        /\ out.err = ""
        /\ \A r \in DOMAIN tr.matches :
              \E x \in Range(HostValues(Q1.where, tr.matches[r])) : HoldsOn(Q1.where, x)

-----------------------------------------------------------------------------
(* WHERE EXISTS { subquery } *)

\* WHERE [NOT] EXISTS { MATCH clauses WHERE where }
Exists(shouldbe, clauses, where) ==
    [t |-> "exists", shouldbe |-> shouldbe, clauses |-> clauses, where |-> where]

\* MATCH (a) WHERE [NOT] EXISTS { MATCH (a)-[r..]->(b) [WHERE ..] } RETURN ID(a)
ExistsQueries ==
    {Query(OneNode, Exists(sb, p, w), <<Item(IdPath("a"))>>, FALSE, <<>>, None, None) :
        sb \in BOOLEAN, p \in {OneEdge, TypedEdge, Typed11},
        w \in {NoWhere, Cmp(Path("b", "age"), ">=", 30), Cmp(Path("b", "grp"), "==", 1)}}

\* one run of such a query on a new object
RunExists == hist = <<>> /\ \E q \in ExistsQueries : Run(q, <<>>)

SpecExists == Init /\ [][RunExists]_vars

\* the subquery of an EXISTS condition yields a row when it is run with
\* hints that bind the shared variable a to the host node x
SubqueryHasRow(c, x) ==
    RowsOf(FreshRun(host, NoLimit,
                    Query(c.clauses, c.where, <<Item(IdPath("a"))>>, FALSE, <<>>, None, None),
                    << [v \in {"a"} |-> x] >>)) # <<>>

\* C17: WHERE EXISTS keeps exactly the rows of the outer query for which
\* the subquery, run with the row's bindings as hints, yields a row; NOT
\* EXISTS keeps exactly the others.
C17_ExistsKeepsRowsWithSubqueryRows ==
    (FirstRun /\ limit0 = NoLimit) =>
        /\ out.err = ""
        /\ LET outer == FreshRun(host, NoLimit, [Q1 EXCEPT !.where = NoWhere], <<>>).res[1].v
           IN out.res[1].v = SelectSeq(outer, LAMBDA cell : SubqueryHasRow(Q1.where, cell.v) = Q1.where.shouldbe)

-----------------------------------------------------------------------------
(* The indexer next to a run: predicates built from comparisons, AND, OR *)

AndOf(a, b) == [t |-> "and", a |-> a, b |-> b]

OrOf(a, b) == [t |-> "or", a |-> a, b |-> b]

IndexAtoms ==
    { Cmp(Path("a", "age"), ">=", 30), Cmp(Path("a", "age"), "==", 20), Cmp(Path("a", "grp"), "<>", 1),
      Cmp(Path("b", "age"), "<", 30), Cmp(Path("b", "grp"), "==", 1), Cmp(Path("b", "age"), "<=", 20) }

IndexWheres ==
    IndexAtoms \cup {AndOf(x, y) : x, y \in IndexAtoms} \cup {OrOf(x, y) : x, y \in IndexAtoms}

IndexQueries ==
    {Query(p, w, <<Item(IdPath("a")), Item(IdPath("b"))>>, FALSE, <<>>, None, None) :
        p \in {TwoNodes, OneEdge}, w \in IndexWheres}

\* indexer.create_indices(keys=[key]) before the run
CreateIndex ==
    /\ hist = <<>> /\ ix.err = ""
    /\ \E key \in {"age", "grp"} \ ix.keys : ix' = CreateIndices(ix, host, key)
    /\ UNCHANGED <<host, limit0, tr, out, hist, memo>>

\* one run on a new object
RunIndexed == hist = <<>> /\ \E q \in IndexQueries : Run(q, <<>>)

\* IndexerConditionRunner(indexer).find(ast) for the WHERE of the run
FindDomain ==
    /\ FirstRun /\ ~ix.found
    /\ ix' = Find(ix, host, Q1.where)
    /\ UNCHANGED <<host, limit0, tr, out, hist, memo>>

NextIndex == CreateIndex \/ RunIndexed \/ FindDomain

SpecIndex == Init /\ [][NextIndex]_vars

\* C18: every binding that satisfies the WHERE predicate binds each
\* variable that has an entry in the domain of the indexer AST to an id of
\* that entry, so the domain removes no result row.
C18_DomainKeepsEveryResultRow ==
    (FirstRun /\ ix.found /\ out.err = "" /\ ~ix.dom.none) =>
        \A r \in DOMAIN tr.matches : \A v \in DOMAIN ix.dom.d :
            v \in DOMAIN tr.matches[r].m => tr.matches[r].m[v] \in ix.dom.d[v]

-----------------------------------------------------------------------------
(* Properties of the hop expansion *)

\* the first run is MATCH (a)-[*0..2]->(b)-[s]->(c) or
\* MATCH (a)-[r*0..1]->(b)-[s*1..2]->(c), without LIMIT on an object without
\* default limit
ChainRun == FirstRun /\ Q1.clauses \in {Chain, TwoHops} /\ Q1.limit = None /\ limit0 = NoLimit

\* the second edge of the chain leads from x to y: by one host edge, and for
\* -[s*1..2]-> also by two host edges through a third node
Continues(x, y) ==
    \/ HasEdge(host, x, y)
    \/ /\ Q1.clauses = TwoHops /\ x # y
       /\ \E m \in HostNodes(host) \ {x, y} : HasEdge(host, x, m) /\ HasEdge(host, m, y)

\* the WHERE of the first run holds for a bound to x
WherePasses(x) == Q1.where = NoWhere \/ AttrGet(host.nattr[x], Q1.where.ent.attr) = Q1.where.val

\* the returned table has the row ID(a) = x, ID(b) = y, ID(c) = z
HasRow(x, y, z) ==
    \E i \in DOMAIN RowsOf(out) :
        RowsOf(out)[i][1].v = x /\ RowsOf(out)[i][2].v = y /\ RowsOf(out)[i][3].v = z

\* C19: for a chain whose first edge may take zero hops the result contains
\* the rows in which it does: for every x from which the second edge leads
\* to y, the row that binds a and b to x and c to y.
C19_ZeroHopRowsOfChain ==
    ChainRun =>
        /\ out.err = ""
        /\ \A x, y \in HostNodes(host) :
              (Continues(x, y) /\ WherePasses(x)) => HasRow(x, x, y)

-----------------------------------------------------------------------------
(* C20: the expanded motif list                                            *)

\* the path that an expansion records for motif edge e
PathOf(x, e) ==
    LET hit == SelectSeq(x.map, LAMBDA kv : kv.k = <<e.u, e.v>>)
    IN IF Len(hit) = 1 THEN hit[1].v ELSE <<>>

\* a path of zero hops, as _get_true_matches recognises it
IsZeroHop(p) == Len(p) = 2 /\ p[1] = p[2]

\* the nodes strictly inside a path
Inner(p) == {p[i] : i \in 2 .. (Len(p) - 1)}

\* expansion x gives motif edge e of motif M the length k: the zero-hop
\* branch with path (u, u), or a chain of k edges with e's labels from u to
\* v through k - 1 distinct nodes that are no nodes of M
HasLength(x, e, k, M) ==
    IF k = 0 THEN PathOf(x, e) = <<e.u, e.u>>
    ELSE /\ Len(PathOf(x, e)) = k + 1
         /\ PathOf(x, e)[1] = e.u /\ PathOf(x, e)[k + 1] = e.v
         /\ Cardinality(Inner(PathOf(x, e))) = k - 1
         /\ \A n \in Inner(PathOf(x, e)) : \A i \in DOMAIN M.nodes : M.nodes[i] # n
         /\ \A i \in 1 .. k : \E j \in DOMAIN x.m.edges :
                x.m.edges[j] = [u |-> PathOf(x, e)[i], v |-> PathOf(x, e)[i + 1], labels |-> e.labels]

\* expansion x consists of the isolated nodes of M and of the paths of M's
\* edges es, whose inner nodes differ from edge to edge, and of nothing else
MadeOfPaths(x, es, M) ==
    /\ Len(x.map) = Len(es)
    /\ \A i, j \in DOMAIN es : i # j => Inner(PathOf(x, es[i])) \cap Inner(PathOf(x, es[j])) = {}
    /\ {x.m.nodes[i] : i \in DOMAIN x.m.nodes} =
            {Isolated(M)[i] : i \in DOMAIN Isolated(M)}
                \cup UNION {{PathOf(x, es[i])[j] : j \in DOMAIN PathOf(x, es[i])} : i \in DOMAIN es}
    /\ \A j \in DOMAIN x.m.edges : \E i \in DOMAIN es : \E n \in 1 .. (Len(PathOf(x, es[i])) - 1) :
            /\ ~IsZeroHop(PathOf(x, es[i]))
            /\ x.m.edges[j] = [u |-> PathOf(x, es[i])[n], v |-> PathOf(x, es[i])[n + 1],
                               labels |-> es[i].labels]

\* the edges a pattern writes, each with the nodes it leads from and to
WrittenEdges(p) ==
    Flatten([i \in DOMAIN p |-> [j \in DOMAIN p[i].edges |->
        [u |-> p[i].nodes[j].name, v |-> p[i].nodes[j + 1].name, w |-> p[i].edges[j]]]])

\* the edge of pattern p that motif edge e stands for
WrittenFor(p, e) == CHOOSE x \in Range(WrittenEdges(p)) : x.u = e.u /\ x.v = e.v

\* the smallest hop count an edge is written with: a plain edge is one hop
WrittenMinHop(w) == IF w.minh = None THEN 1 ELSE w.minh

\* the largest hop count an edge is written with
WrittenTop(w) == IF w.maxh = None THEN WrittenMinHop(w) ELSE w.maxh

\* no edge of es is written with a larger hop count
TopWritten(es, p) ==
    IF es = <<>> THEN 0
    ELSE CHOOSE k \in {WrittenTop(WrittenFor(p, es[i]).w) : i \in DOMAIN es} :
            \A i \in DOMAIN es : WrittenTop(WrittenFor(p, es[i]).w) <= k

\* the choices of one length per motif edge, each within the range *min..max
\* that pattern p writes for the edge
LengthChoices(es, p) ==
    {c \in [DOMAIN es -> 0 .. TopWritten(es, p)] :
        \A i \in DOMAIN es : /\ WrittenMinHop(WrittenFor(p, es[i]).w) <= c[i]
                             /\ c[i] <= WrittenTop(WrittenFor(p, es[i]).w)}

\* the expansions of the list L that give every edge its chosen length
Realising(L, es, c, M) ==
    {idx \in DOMAIN L : \A i \in DOMAIN es : HasLength(L[idx], es[i], c[i], M)}

ExpandsEveryChoiceOnce(L, es, M, p) ==
    /\ \A c \in LengthChoices(es, p) : Cardinality(Realising(L, es, c, M)) = 1
    /\ Len(L) = Cardinality(LengthChoices(es, p))
    /\ \A idx \in DOMAIN L : MadeOfPaths(L[idx], es, M)

-----------------------------------------------------------------------------
(* C21: zero-hop bindings.  Node labels are 20 to 23. *)

\* the host of test_node_type_edge_hop: every node carries label 20 and a
\* label of its own, the edges form the path 1 -> 2 -> 3
HostL ==
    [n |-> 3, multi |-> FALSE,
     nattr |-> << [grp |-> 1], [grp |-> 2, age |-> 20], [grp |-> 3] >>,
     nlabels |-> << {20, 21}, {20, 22}, {20, 23} >>,
     edges |-> (<<1, 2>> :> << Edge({10}, [val |-> 9]) >>)
            @@ (<<2, 3>> :> << Edge({10}, [val |-> 4]) >>)]

\* the same as a MultiDiGraph, node 3 without label 20
HostM ==
    [n |-> 3, multi |-> TRUE,
     nattr |-> << [grp |-> 1], [grp |-> 2, age |-> 20], [grp |-> 3] >>,
     nlabels |-> << {20, 21}, {20, 22}, {23} >>,
     edges |-> (<<1, 2>> :> << Edge({10}, [val |-> 9]), Edge({11}, [val |-> 9]) >>)
            @@ (<<2, 3>> :> << Edge({10}, [val |-> 4]) >>)]

LabelledHosts == {HostL, HostM, HostA}

\* node_match of (name:label {attrs})
NdWith(name, labels, attrs) == [name |-> name, labels |-> labels, attrs |-> attrs]

\* MATCH (a:20)-[r*0..1]->(b:21)
ZeroToLabel ==
    << [nodes |-> <<NdWith("a", {20}, <<>>), NdWith("b", {21}, <<>>)>>, edges |-> <<EdHop("r", {}, 0, 1)>>] >>

\* MATCH (a:20)-[r*0..2]->(b {grp: 2})
ZeroToAttr ==
    << [nodes |-> <<NdWith("a", {20}, <<>>), NdWith("b", {}, [grp |-> 2])>>, edges |-> <<EdHop("r", {}, 0, 2)>>] >>

\* MATCH (a:21)-[r*0..2]->(b)
ZeroFromLabel ==
    << [nodes |-> <<NdWith("a", {21}, <<>>), Nd("b")>>, edges |-> <<EdHop("r", {}, 0, 2)>>] >>

\* MATCH (a {grp: 2})-[r*0..1]->(b:20)-[s*0..1]->(c {age: 20})
ZeroTwice ==
    << [nodes |-> <<NdWith("a", {}, [grp |-> 2]), NdWith("b", {20}, <<>>), NdWith("c", {}, [age |-> 20])>>,
        edges |-> <<EdHop("r", {}, 0, 1), EdHop("s", {}, 0, 1)>>] >>

\* MATCH (a)-[r*0..1]->(b:22) MATCH (c)-[s*0]->(d:21)
ZeroApart ==
    << [nodes |-> <<Nd("a"), NdWith("b", {22}, <<>>)>>, edges |-> <<EdHop("r", {}, 0, 1)>>],
       [nodes |-> <<Nd("c"), NdWith("d", {21}, <<>>)>>, edges |-> <<EdHop("s", {}, 0, None)>>] >>

ZeroPatterns == {ZeroToLabel, ZeroToAttr, ZeroFromLabel, ZeroTwice, ZeroApart}

ZeroQueries ==
    {Query(p, w, ReturnIds(p), FALSE, <<>>, None, l) :
        p \in ZeroPatterns, w \in {NoWhere, Cmp(Path("a", "grp"), "<>", 3)}, l \in {None, 1}}

InitLabelled ==
    /\ host \in LabelledHosts
    /\ limit0 \in Limits
    /\ tr = NewTransformer(limit0)
    /\ out = NoOut
    /\ hist = <<>>
    /\ ix = NewIndexer
    /\ memo = NoMemo

\* one run of such a query on a new object
RunZero == hist = <<>> /\ \E q \in ZeroQueries : Run(q, <<>>)

SpecZero == InitLabelled /\ [][RunZero]_vars

\* the node of the pattern that declares variable n
WrittenNode(p, n) ==
    CHOOSE nd \in UNION {Range(p[i].nodes) : i \in DOMAIN p} : nd.name = n

\* host node x carries the labels and the attribute values that the pattern
\* requires of variable n
Satisfies(p, n, x) ==
    /\ WrittenNode(p, n).labels \subseteq host.nlabels[x]
    /\ \A a \in DOMAIN WrittenNode(p, n).attrs :
            a \in DOMAIN host.nattr[x] /\ host.nattr[x][a] = WrittenNode(p, n).attrs[a]

\* C21: a kept binding that comes from an expansion in which motif edge
\* (u, v) takes zero hops binds v to the host node of u, and that host node
\* carries the labels and attributes required of u and those required of v.
C21_ZeroHopEndsShareAFittingNode ==
    FirstRun =>
        \A i \in DOMAIN tr.matches : \A j \in DOMAIN tr.matches[i].p :
            IsZeroHop(tr.matches[i].p[j].v) =>
                /\ tr.matches[i].p[j].k[1] \in DOMAIN tr.matches[i].m
                /\ tr.matches[i].p[j].k[2] \in DOMAIN tr.matches[i].m
                /\ tr.matches[i].m[tr.matches[i].p[j].k[1]] = tr.matches[i].m[tr.matches[i].p[j].k[2]]
                /\ Satisfies(Q1.clauses, tr.matches[i].p[j].k[1], tr.matches[i].m[tr.matches[i].p[j].k[1]])
                /\ Satisfies(Q1.clauses, tr.matches[i].p[j].k[2], tr.matches[i].m[tr.matches[i].p[j].k[1]])

\* the run kept a zero-hop binding of (a)-[r]->(b) and dropped the one on
\* another host node, which fits a but not b
C21_Witness ==
    /\ FirstRun /\ out.err = "" /\ Q1.where = NoWhere /\ Q1.limit = None /\ limit0 = NoLimit
    /\ \E i \in DOMAIN tr.matches :
            /\ IsZeroHop(tr.matches[i].p[1].v)
            /\ tr.matches[i].m["a"] = tr.matches[i].m["b"]
    /\ \E x \in HostNodes(host) :
            /\ Satisfies(Q1.clauses, "a", x) /\ ~Satisfies(Q1.clauses, "b", x)
            /\ \A i \in DOMAIN tr.matches : IsZeroHop(tr.matches[i].p[1].v) => tr.matches[i].m["a"] # x

-----------------------------------------------------------------------------
(* C22: _is_node_attr_match, called on one motif object and one host       *)
(* object.  The motif is self._motif, which match_clause updates in place. *)

\* the longest sequence of calls that is explored
MaxCalls == 4

NodeLabelSets == {{}, {20}, {21}}

NodeAttrSets == {<<>>, [grp |-> 2], [age |-> 20]}

\* self._motif.add_node("a", __labels__=l, **js)
DeclareNode ==
    /\ Len(hist) < MaxCalls
    /\ \E l \in NodeLabelSets, js \in NodeAttrSets :
            tr' = [tr EXCEPT !.motif = AddNode(tr.motif, "a", l, js)]
    /\ hist' = Append(hist, [fn |-> "add_node"])
    /\ UNCHANGED <<host, limit0, out, ix, memo>>

\* _is_node_attr_match("a", hn, self._motif, host)
CallNodeMatch ==
    /\ Len(hist) < MaxCalls /\ tr.motif.nodes # <<>>
    /\ \E hn \in HostNodes(host) : \E r \in {CachedNodeMatch(memo, tr.motif, host, "a", hn)} :
            /\ memo' = r.memo
            /\ hist' = Append(hist, [fn |-> "node", hn |-> hn, res |-> r.res])
    /\ UNCHANGED <<host, limit0, tr, out, ix>>

\* _is_node_attr_match.cache_clear()
ClearNodeCache ==
    /\ Len(hist) < MaxCalls /\ memo # NoMemo
    /\ memo' = NoMemo
    /\ hist' = Append(hist, [fn |-> "cache_clear"])
    /\ UNCHANGED <<host, limit0, tr, out, ix>>

NextNodeMatch == DeclareNode \/ CallNodeMatch \/ ClearNodeCache

SpecNodeMatch == InitLabelled /\ [][NextNodeMatch]_vars

LastCall == hist[Len(hist)]

\* C22: _is_node_attr_match(m, h) is true iff the labels required of motif
\* node m are a subset of h's labels (none required: any host node) and
\* every other attribute of m equals h's value of it, a missing value of h
\* counting as NULL.
C22_NodeMatchIffLabelsAndAttributesFit ==
    (hist # <<>> /\ LastCall.fn = "node") =>
        (LastCall.res <=>
            /\ NodeData(tr.motif, "a").labels \subseteq host.nlabels[LastCall.hn]
            /\ \A k \in DOMAIN NodeData(tr.motif, "a").attrs :
                    NodeData(tr.motif, "a").attrs[k] =
                        (IF k \in DOMAIN host.nattr[LastCall.hn] THEN host.nattr[LastCall.hn][k] ELSE None))

-----------------------------------------------------------------------------
(* C23: _is_edge_attr_match, called on newly built graphs as its tests     *)
(* call it, so that its cache holds no entry for the call.                 *)

\* host.add_edge(u, v, **attrs): an edge without __labels__
Plain(attrs) == [haslab |-> FALSE, labels |-> {}, attrs |-> attrs]

\* a MultiDiGraph: parallel edges without labels that differ in val, a
\* labelled edge with val, parallel edges of two labels; no edge 3 -> 1
HostE ==
    [n |-> 3, multi |-> TRUE,
     nattr |-> << [grp |-> 1], [grp |-> 2], [grp |-> 3] >>,
     nlabels |-> << {}, {}, {} >>,
     edges |-> (<<1, 2>> :> << Plain([val |-> 3]), Plain([val |-> 9]) >>)
            @@ (<<2, 1>> :> << Edge({10}, [val |-> 3]) >>)
            @@ (<<1, 3>> :> << Edge({10}, [val |-> 9]), Edge({11}, <<>>) >>)]

\* a DiGraph: an edge without labels, a labelled edge with val; no edge
\* between 1 and 3
HostF ==
    [n |-> 3, multi |-> FALSE,
     nattr |-> << [grp |-> 1], [grp |-> 2], [grp |-> 3] >>,
     nlabels |-> << {}, {}, {} >>,
     edges |-> (<<1, 2>> :> << Plain([val |-> 9]) >>)
            @@ (<<2, 1>> :> << Edge({10}, [val |-> 3]) >>)]

InitEdgeMatch ==
    /\ host \in {HostE, HostF}
    /\ limit0 \in Limits
    /\ tr = NewTransformer(limit0)
    /\ out = NoOut
    /\ hist = <<>>
    /\ ix = NewIndexer
    /\ memo = NoMemo

\* the edge of a motif with the single edge A -> B
MotifEdges ==
    {Plain(a) : a \in {<<>>, [val |-> 9], [val |-> 3]}}
        \cup {Edge(l, a) : l \in {{10}, {11}}, a \in {<<>>, [val |-> 9], [val |-> 3]}}

\* _is_edge_attr_match(("A", "B"), (hu, hv), motif, host) for a
\* MultiDiGraph motif with the edge me
CallEdgeMatch ==
    /\ hist = <<>>
    /\ \E me \in MotifEdges, hu, hv \in HostNodes(host) :
        \E r \in {EdgeAttrMatchCall(TRUE, <<me>>, host.multi, HostEdges(host, hu, hv))} :
            hist' = <<[fn |-> "edge", me |-> me, hu |-> hu, hv |-> hv, err |-> r.err, res |-> r.res]>>
    /\ UNCHANGED <<host, limit0, tr, out, ix, memo>>

SpecEdgeMatch == InitEdgeMatch /\ [][CallEdgeMatch]_vars

\* the host's edges between the endpoints of the last call
CalledEdges == HostEdges(host, LastCall.hu, LastCall.hv)

\* host edge e carries every attribute of the motif edge with equal value
Carries(e, me) == \A a \in DOMAIN me.attrs : a \in DOMAIN e.attrs /\ e.attrs[a] = me.attrs[a]

\* C23: _is_edge_attr_match is true iff the host has an edge between the
\* mapped endpoints, the motif edge's labels, when it requires any, meet the
\* union of the labels of the host's parallel edges, and one of the host's
\* parallel edges carries all attributes of the motif edge with equal
\* values, whether or not the edges carry labels.
C23_EdgeMatchIffLabelsMeetAndAttributesCarried ==
    (hist # <<>> /\ LastCall.fn = "edge") =>
        /\ LastCall.err = ""
        /\ LastCall.res <=>
            /\ CalledEdges # <<>>
            /\ LastCall.me.labels # {} =>
                    LastCall.me.labels \cap UNION {CalledEdges[i].labels : i \in DOMAIN CalledEdges} # {}
            /\ \E i \in DOMAIN CalledEdges : Carries(CalledEdges[i], LastCall.me)

-----------------------------------------------------------------------------
(* C24: edge cells on a multigraph host *)

\* MATCH (a)-[r:10]->(b)
Typed10 == << [nodes |-> <<Nd("a"), Nd("b")>>, edges |-> <<Ed("r", {10})>>] >>

\* conditions on the edge r, on the node a, and on both
MaskAtoms ==
    { Cmp(Path("r", "val"), ">=", 5), Cmp(Path("r", "val"), "==", 9), Cmp(Path("r", "val"), "<", 9),
      Cmp(Path("a", "grp"), "==", 1) }

MaskWheres ==
    {NoWhere} \cup MaskAtoms \cup {AndOf(x, y) : x, y \in MaskAtoms} \cup {OrOf(x, y) : x, y \in MaskAtoms}

\* MATCH .. WHERE .. RETURN r.val
MaskQueries ==
    {Query(p, w, <<Item(Path("r", "val"))>>, FALSE, <<>>, None, None) : p \in {OneEdge, Typed10}, w \in MaskWheres}

InitMulti ==
    /\ host \in {HostB, HostM, HostE}
    /\ limit0 = NoLimit
    /\ tr = NewTransformer(limit0)
    /\ out = NoOut
    /\ hist = <<>>
    /\ ix = NewIndexer
    /\ memo = NoMemo

\* one run of such a query on a new object
RunMask == hist = <<>> /\ \E q \in MaskQueries : Run(q, <<>>)

SpecMask == InitMulti /\ [][RunMask]_vars

\* the predicate holds of the parallel edge e under the binding row: a
\* comparison on the edge variable reads e, one on a node variable reads the
\* bound node, AND and OR combine the two sides
RECURSIVE EdgePasses(_, _, _)
EdgePasses(c, e, row) ==
    CASE c.t = "none" -> TRUE
      [] c.t = "and" -> EdgePasses(c.a, e, row) /\ EdgePasses(c.b, e, row)
      [] c.t = "or" -> EdgePasses(c.a, e, row) \/ EdgePasses(c.b, e, row)
      [] OTHER -> IF c.ent.ent \in DOMAIN row.m
                  THEN HoldsOn(c, AttrGet(host.nattr[row.m[c.ent.ent]], c.ent.attr))
                  ELSE HoldsOn(c, AttrGet(e.attrs, c.ent.attr))

\* the val of the parallel edges between the bound endpoints that carry one
\* of the pattern's labels and pass the predicate, in the order of their keys
PassingVals(c, labels, row) ==
    LET es == HostEdges(host, row.m["a"], row.m["b"])
        ok == SelectSeq(es, LAMBDA e : /\ labels = {} \/ e.labels \cap labels # {}
                                      /\ EdgePasses(c, e, row))
    IN [i \in DOMAIN ok |-> AttrGet(ok[i].attrs, "val")]

\* the cells of the only column, as the lists of their values
CellVals(o) == [i \in DOMAIN o.res[1].v |-> [j \in DOMAIN o.res[1].v[i].ents |-> o.res[1].v[i].ents[j].v]]

\* the cells that hold an edge
NonEmpty(cells) == SelectSeq(cells, LAMBDA w : w # <<>>)

\* C24: on a multigraph host the cell of r.val holds exactly the parallel
\* edges between the matched endpoints, of the pattern's labels, that pass
\* the per-edge mask of the WHERE predicate, AND and OR combining the masks
\* component-wise; a WHERE on node attributes only removes no parallel edge,
\* and the evaluation fails for no number of parallel edges.
C24_EdgeCellHoldsThePassingParallelEdges ==
    FirstRun =>
        /\ out.err = ""
        /\ LET want == [r \in DOMAIN tr.matches |->
                           PassingVals(Q1.where, Q1.clauses[1].edges[1].types, tr.matches[r])]
           IN NonEmpty(CellVals(out)) = NonEmpty(want)

-----------------------------------------------------------------------------
(* Hinter: eliminate_supersets and index_domain_to_hints *)

MaxHintList == 3

HintKeys == {"A", "B"}
HintVals == {1, 2}

\* the hints over some of the keys, the empty hint included
SmallHints == UNION {[S -> HintVals] : S \in SUBSET HintKeys}

SmallHintLists == UNION {[1 .. k -> SmallHints] : k \in 0 .. MaxHintList}

\* Hinter._is_subsumed
IsSubsumed(small, big) == \A k \in DOMAIN small : k \in DOMAIN big /\ big[k] = small[k]

\* the hints of k keys, in their order in the list
OfSize(hints, k) == SelectSeq(hints, LAMBDA h : Cardinality(DOMAIN h) = k)

RECURSIVE UpToSize(_, _)
UpToSize(hints, k) == IF k < 0 THEN <<>> ELSE UpToSize(hints, k - 1) \o OfSize(hints, k)

Unsorted(hints) == hints
\* sorted(hints, key=lambda h: len(h)): stable, ascending by the number of keys
SortedByLen(hints) == UpToSize(hints, Cardinality(UNION {DOMAIN hints[i] : i \in DOMAIN hints}))

\* the loop of eliminate_supersets over the sorted hints
RECURSIVE KeepUnsubsumed(_, _)
KeepUnsubsumed(result, hints) ==
    IF hints = <<>> THEN result
    ELSE KeepUnsubsumed(IF \E i \in DOMAIN result : IsSubsumed(result[i], Head(hints))
                        THEN result
                        ELSE Append(result, Head(hints)),
                        Tail(hints))

\* Hinter.eliminate_supersets
EliminateSupersets(hints) == KeepUnsubsumed(<<>>, SortedByLen(hints))

\* an index domain as its items in the order of the dict, each candidate
\* set as the list of its elements in the order the set yields them
DomainKeys == {"A", "B", "C"}
KeyOrders == {s \in UNION {[1 .. k -> DomainKeys] : k \in 0 .. 3} : \A i, j \in DOMAIN s : i # j => s[i] # s[j]}
ValueOrders == {s \in UNION {[1 .. k -> HintVals] : k \in 0 .. 2} : \A i, j \in DOMAIN s : i # j => s[i] # s[j]}
SmallDomains == UNION {{[i \in DOMAIN ks |-> [k |-> ks[i], v |-> vs[i]]] : vs \in [DOMAIN ks -> ValueOrders]} : ks \in KeyOrders}

\* [{**r, **c} for r in ret for c in current]
Products(ret, current) ==
    [n \in 1 .. (Len(ret) * Len(current)) |->
        LET r == ret[((n - 1) \div Len(current)) + 1]
            c == current[((n - 1) % Len(current)) + 1]
        IN c @@ r]

RECURSIVE ProductOver(_, _)
ProductOver(ret, items) ==
    IF items = <<>> THEN ret
    ELSE ProductOver(Products(ret, [i \in DOMAIN Head(items).v |-> (Head(items).k :> Head(items).v[i])]),
                     Tail(items))

IndexDomainToHintsOfFirst(result) ==
    IF result = <<>> THEN <<>> ELSE ProductOver(<< <<>> >>, <<Head(result)>>)
\* Hinter.index_domain_to_hints
IndexDomainToHints(result) ==
    IF result = <<>> THEN <<>> ELSE ProductOver(<< <<>> >>, result)

InitHinter ==
    /\ host = HostA
    /\ limit0 = NoLimit
    /\ tr = NewTransformer(limit0)
    /\ out = NoOut
    /\ hist = <<>>
    /\ ix = NewIndexer
    /\ memo = NoMemo

\* a call of eliminate_supersets
CallEliminateSupersets ==
    /\ hist = <<>>
    /\ \E hs \in SmallHintLists :
          hist' = <<[fn |-> "eliminate_supersets", arg |-> hs, res |-> EliminateSupersets(hs)]>>
    /\ UNCHANGED <<host, limit0, tr, out, ix, memo>>

\* a call of index_domain_to_hints
CallIndexDomainToHints ==
    /\ hist = <<>>
    /\ \E d \in SmallDomains :
          hist' = <<[fn |-> "index_domain_to_hints", arg |-> d, res |-> IndexDomainToHints(d)]>>
    /\ UNCHANGED <<host, limit0, tr, out, ix, memo>>

NextHinter == CallEliminateSupersets \/ CallIndexDomainToHints

SpecHinter == InitHinter /\ [][NextHinter]_vars

Eliminated == hist # <<>> /\ hist[1].fn = "eliminate_supersets"

\* small is a hint of big: every binding of small is a binding of big
Within(small, big) == DOMAIN small \subseteq DOMAIN big /\ \A k \in DOMAIN small : small[k] = big[k]

\* C25: eliminate_supersets returns exactly the minimal hints of its input
\* under inclusion, each once: every returned hint is an input hint, no
\* returned hint is within another returned hint, and every input hint has
\* a returned hint within it.
C25_EliminateSupersetsKeepsTheMinimalHints ==
    Eliminated =>
        LET arg == hist[1].arg
            res == hist[1].res
        IN /\ Range(res) = {h \in Range(arg) : \A g \in Range(arg) : Within(g, h) => g = h}
           /\ \A i, j \in DOMAIN res : i # j => ~Within(res[i], res[j])
           /\ \A h \in Range(arg) : \E r \in Range(res) : Within(r, h)

\* a larger hint that precedes the hint within it, and a repeated hint
C25_Witness ==
    /\ Eliminated
    /\ \E i, j \in DOMAIN hist[1].arg :
          i < j /\ Within(hist[1].arg[j], hist[1].arg[i]) /\ hist[1].arg[j] # hist[1].arg[i]
    /\ \E i, j \in DOMAIN hist[1].arg : i # j /\ hist[1].arg[i] = hist[1].arg[j]
    /\ Len(hist[1].res) = 1

Producted == hist # <<>> /\ hist[1].fn = "index_domain_to_hints"

\* the hints that bind every key of the domain to one of its candidates
Combinations(d) ==
    {f \in [{d[i].k : i \in DOMAIN d} -> HintVals] : \A i \in DOMAIN d : f[d[i].k] \in Range(d[i].v)}

\* C27: index_domain_to_hints returns one hint per element of the Cartesian
\* product of the candidate sets, each binding every variable of the
\* domain, none missing and none repeated; it returns the empty list for an
\* empty domain and when a candidate set is empty.
C27_OneHintPerCombination ==
    Producted =>
        LET d == hist[1].arg
            res == hist[1].res
        IN /\ (d = <<>> \/ \E i \in DOMAIN d : d[i].v = <<>>) => res = <<>>
           /\ d # <<>> => Range(res) = Combinations(d)
           /\ \A i, j \in DOMAIN res : i # j => res[i] # res[j]

\* three variables of two candidates each: eight hints
C27_Witness ==
    /\ Producted
    /\ Len(hist[1].arg) = 3
    /\ \A i \in DOMAIN hist[1].arg : Len(hist[1].arg[i].v) = 2
    /\ Len(hist[1].res) = 8

-----------------------------------------------------------------------------
(* C26: Hinter.doublecheck, called on newly built graphs as its tests call *)
(* it, so that the caches of the two match functions hold no entry.        *)

\* motifs of the nodes A and B, in this order, with at most one edge A -> B
CheckNodeData == {[labels |-> l, attrs |-> a] : l \in {{}, {20}, {23}}, a \in {<<>>, [grp |-> 1]}}
CheckEdges == {<<>>} \cup {<<Edge(l, a)>> : l \in {{10}, {11}}, a \in {<<>>, [val |-> 9], [val |-> 4]}}
CheckMotifs ==
    {[nodes |-> <<"A", "B">>, nat |-> <<da, db>>,
      edges |-> IF e = <<>> THEN <<>> ELSE (<<"A", "B">> :> e)] : da, db \in CheckNodeData, e \in CheckEdges}

\* hint lists by the keys of their hints; doublecheck reads only the keys.
\* <<>> stands for hints=None and for hints=[]
CheckHints ==
    { <<>>, <<[A |-> 1]>>, <<[B |-> 2]>>, <<[A |-> 1], [B |-> 2]>>, <<[A |-> 1, B |-> 2]>>,
      <<[Z |-> 1]>>, <<[A |-> 1, Z |-> 2]>> }

\* the keys of the hints
HintsKeys(hints) == UNION {DOMAIN hints[i] : i \in DOMAIN hints}

\* the loop over hint_motif.nodes(): the nodes of the motif named by a key
NodesChecked(M, h, match, keys) ==
    \A i \in DOMAIN M.nodes : M.nodes[i] \in keys => IsNodeAttrMatch(M.nat[i], h, match[M.nodes[i]])

\* the loop over hint_motif.edges(): the edges of the motif between two
\* such nodes
EdgesChecked(M, h, match, keys) ==
    \A uv \in DOMAIN M.edges : (uv[1] \in keys /\ uv[2] \in keys) =>
        /\ HasEdge(h, match[uv[1]], match[uv[2]])
        /\ EdgeAttrMatchCall(TRUE, M.edges[uv], h.multi, HostEdges(h, match[uv[1]], match[uv[2]])).res

\* Hinter.doublecheck
Doublecheck(h, M, match, hints) ==
    IF hints = <<>> THEN TRUE
    ELSE NodesChecked(M, h, match, HintsKeys(hints)) /\ EdgesChecked(M, h, match, HintsKeys(hints))

InitDoublecheck ==
    /\ host \in {HostL, HostM}
    /\ limit0 = NoLimit
    /\ tr = NewTransformer(limit0)
    /\ out = NoOut
    /\ hist = <<>>
    /\ ix = NewIndexer
    /\ memo = NoMemo

\* hinter.doublecheck(host, motif, match, hints) with a match of both nodes
CallDoublecheck ==
    /\ hist = <<>>
    /\ \E M \in CheckMotifs, hs \in CheckHints, match \in [{"A", "B"} -> HostNodes(host)] :
          hist' = <<[fn |-> "doublecheck", motif |-> M, match |-> match, hints |-> hs,
                     res |-> Doublecheck(host, M, match, hs)]>>
    /\ UNCHANGED <<host, limit0, tr, out, ix, memo>>

SpecDoublecheck == InitDoublecheck /\ [][CallDoublecheck]_vars

\* host node hn has the labels and the attribute values the motif node asks
NodeCompatible(d, hn) ==
    /\ d.labels \subseteq host.nlabels[hn]
    /\ \A a \in DOMAIN d.attrs : a \in DOMAIN host.nattr[hn] /\ host.nattr[hn][a] = d.attrs[a]

\* the motif edge's labels meet those of the host's parallel edges es, one
\* of which carries its attributes
EdgeCompatible(me, es) ==
    /\ me.labels # {} => me.labels \cap UNION {es[i].labels : i \in DOMAIN es} # {}
    /\ \E i \in DOMAIN es : Carries(es[i], me)

\* C26: doublecheck is true iff every motif node named by a key of a hint
\* is node-compatible with the host node the match assigns to it and every
\* motif edge between two such nodes exists in the host between the
\* assigned nodes and is edge-compatible; without hints it is true.
C26_DoublecheckIffHintedNodesAndEdgesFit ==
    (hist # <<>> /\ LastCall.fn = "doublecheck") =>
        LET M == LastCall.motif
            match == LastCall.match
            keys == HintsKeys(LastCall.hints)
        IN LastCall.res <=>
            \/ LastCall.hints = <<>>
            \/ /\ \A i \in DOMAIN M.nodes : M.nodes[i] \in keys => NodeCompatible(M.nat[i], match[M.nodes[i]])
               /\ \A uv \in DOMAIN M.edges : (uv[1] \in keys /\ uv[2] \in keys) =>
                     /\ HasEdge(host, match[uv[1]], match[uv[2]])
                     /\ \A j \in DOMAIN M.edges[uv] :
                           EdgeCompatible(M.edges[uv][j], HostEdges(host, match[uv[1]], match[uv[2]]))

-----------------------------------------------------------------------------
(* C29: create_indices and get_index_querier on one ArrayAttributeIndexer  *)
(* over the nodes of the host                                              *)

QuerierKeys == {"age", "grp", "val", "wgt", "zip"}

InitQuerier ==
    /\ host \in {HostA, HostB}
    /\ limit0 = NoLimit
    /\ tr = NewTransformer(limit0)
    /\ out = NoOut
    /\ hist = <<>>
    /\ ix = NewIndexer
    /\ memo = NoMemo

\* indexer.create_indices(keys=[key])
CreateIndexOn ==
    /\ ix.err = ""
    /\ \E key \in QuerierKeys \ ix.keys : ix' = CreateIndices(ix, host, key)
    /\ UNCHANGED <<host, limit0, tr, out, hist, memo>>

\* indexer.get_index_querier(key)
CallGetIndexQuerier ==
    /\ ix.err = "" /\ Len(hist) < MaxCalls
    /\ \E key \in QuerierKeys :
          /\ hist' = Append(hist, [fn |-> "get_index_querier", key |-> key, indexed |-> key \in ix.keys,
                                   q |-> GetIndexQuerier(ix, host, key)])
          /\ ix' = AfterGet(ix, key)
    /\ UNCHANGED <<host, limit0, tr, out, memo>>

NextQuerier == CreateIndexOn \/ CallGetIndexQuerier

SpecQuerier == InitQuerier /\ [][NextQuerier]_vars

\* the querier holds every entity once, each with its value of the key
HoldsTheColumn(q, key) ==
    /\ Len(q.ids) = host.n /\ Len(q.attrs) = host.n
    /\ {q.ids[i] : i \in DOMAIN q.ids} = HostNodes(host)
    /\ \A i \in DOMAIN q.ids : q.attrs[i] = AttrGet(host.nattr[q.ids[i]], key)

\* C29: once create_indices has indexed a key, every get_index_querier of
\* the key returns an IncrementIndexQuerier over the key's values sorted
\* ascending, the entity ids permuted alike, whatever get_index_querier
\* calls came before create_indices; for a key that was never indexed it
\* returns a NoIndexQuerier over the entities in their original order.
C29_QuerierFollowsTheIndex ==
    (hist # <<>> /\ LastCall.fn = "get_index_querier") =>
        /\ HoldsTheColumn(LastCall.q, LastCall.key)
        /\ IF LastCall.indexed
           THEN /\ LastCall.q.inc
                /\ \A i, j \in DOMAIN LastCall.q.attrs : i < j => LastCall.q.attrs[i] <= LastCall.q.attrs[j]
           ELSE /\ ~LastCall.q.inc
                /\ \A i \in DOMAIN LastCall.q.ids : LastCall.q.ids[i] = i

-----------------------------------------------------------------------------
(* C28: the two queriers over one sorted column without missing values *)

MaxColumn == 3

ColumnVals == {1, 3, 4}

\* query values: below, between, among and above the values of a column
QueryVals == 0 .. 5

SortedColumns ==
    {s \in UNION {[1 .. n -> ColumnVals] : n \in 0 .. MaxColumn} : \A i, j \in DOMAIN s : i < j => s[i] <= s[j]}

\* the entity ids of a column of n entries, in any order
IdOrders(n) == {s \in [1 .. n -> 1 .. n] : \A i, j \in 1 .. n : i # j => s[i] # s[j]}

QuerierOps == {"<", "<=", ">", ">=", "=", "<>"}

\* get_comparator: "=" names eq as "==" does, "!=" names ne as "<>" does
ComparatorOp(op) == IF op = "=" THEN "==" ELSE IF op = "!=" THEN "<>" ELSE op

\* IncrementIndexQuerier.eq returns the list [] for a value that is not in
\* the column; every other comparator returns a set
IncrementReturnsList(qr, op, val, lo) == op = "==" /\ (lo = Len(qr.attrs) \/ qr.attrs[lo + 1] # val)

\* get_comparator(op)(val) of an IncrementIndexQuerier: the returned object
IncrementCall(qr, op, val) ==
    [kind |-> IF IncrementReturnsList(qr, ComparatorOp(op), val, BisectLeft(qr.attrs, val)) THEN "list" ELSE "set",
     ids |-> IncrementCompare(qr, ComparatorOp(op), val, BisectLeft(qr.attrs, val), BisectRight(qr.attrs, val))]

\* get_comparator(op)(val) of a NoIndexQuerier: the returned object
NoIndexCall(qr, op, val) == [kind |-> "set", ids |-> NoIndexCompare(qr, ComparatorOp(op), val)]

InitCompare ==
    /\ host = HostA
    /\ limit0 = NoLimit
    /\ tr = NewTransformer(limit0)
    /\ out = NoOut
    /\ hist = <<>>
    /\ ix = NewIndexer
    /\ memo = NoMemo

\* IncrementIndexQuerier(key, ids, col).get_comparator(op)(val) and
\* NoIndexQuerier(key, ids, col).get_comparator(op)(val)
CallComparators ==
    /\ hist = <<>>
    /\ \E col \in SortedColumns, op \in QuerierOps, val \in QueryVals : \E ids \in IdOrders(Len(col)) :
          hist' = <<[fn |-> "compare", col |-> col, ids |-> ids, op |-> op, val |-> val,
                     inc |-> IncrementCall([inc |-> TRUE, ids |-> ids, attrs |-> col], op, val),
                     scan |-> NoIndexCall([inc |-> FALSE, ids |-> ids, attrs |-> col], op, val)]>>
    /\ UNCHANGED <<host, limit0, tr, out, ix, memo>>

SpecCompare == InitCompare /\ [][CallComparators]_vars

\* C28: over a column sorted ascending without missing values the
\* IncrementIndexQuerier and the NoIndexQuerier return the same set of
\* entity ids for <, <=, >, >=, = and <> and for every query value, values
\* that are not in the column and values below or above its entries
\* included.
C28_QueriersReturnTheSameSet ==
    (hist # <<>> /\ LastCall.fn = "compare") => LastCall.inc = LastCall.scan

-----------------------------------------------------------------------------
(* C30: OR over two branches of the indexer AST *)

\* a comparison the indexer AST does not support (UnsupportedOp)
Unsupported == [t |-> "cmp", shouldbe |-> TRUE, ent |-> Path("a", "age"), op |-> "in", val |-> None, vals |-> {20}]

\* branches: Compare on a or on b, AND of two comparisons, UnsupportedOp
OrBranches ==
    IndexAtoms
        \cup {AndOf(Cmp(Path("a", "age"), ">=", 30), Cmp(Path("b", "grp"), "==", 1)),
              AndOf(Cmp(Path("a", "grp"), "<>", 1), Unsupported),
              Unsupported}

\* the domain of a call of the AST: None, or the dict
DomainOf(r) == [none |-> r.none, d |-> r.d]

\* OR(a, b)(indexer), next to a(indexer) and b(indexer) on the same indexer
CallOr ==
    /\ hist = <<>> /\ ix.err = ""
    /\ \E a, b \in OrBranches :
          /\ hist' = <<[fn |-> "or", a |-> a, b |-> b,
                        ra |-> DomainOf(IndexerAst(a, ix, host)),
                        rb |-> DomainOf(IndexerAst(b, IndexerAst(a, ix, host).x, host)),
                        r |-> DomainOf(IndexerAst(OrOf(a, b), ix, host))]>>
          /\ ix' = IndexerAst(OrOf(a, b), ix, host).x
    /\ UNCHANGED <<host, limit0, tr, out, memo>>

NextOr == CreateIndexOn \/ CallOr

SpecOr == InitQuerier /\ [][NextOr]_vars

\* C30: the domain of OR(a, b) over two supported branches holds only the
\* variables that the domains of both branches hold, each with the union of
\* the two candidate sets, and the OR is unknown when a branch is
\* unsupported.
C30_OrKeepsCommonVariablesOnly ==
    (hist # <<>> /\ LastCall.fn = "or") =>
        IF LastCall.ra.none \/ LastCall.rb.none THEN LastCall.r.none
        ELSE /\ ~LastCall.r.none
             /\ DOMAIN LastCall.r.d = DOMAIN LastCall.ra.d \cap DOMAIN LastCall.rb.d
             /\ \A k \in DOMAIN LastCall.r.d : LastCall.r.d[k] = LastCall.ra.d[k] \cup LastCall.rb.d[k]

====
